---- MODULE Spec2Model ----
(***************************************************************************)
(* Campfire chat: the room / message repositories over the key-value       *)
(* store and the request handlers that call them.                          *)
(*                                                                         *)
(* Every `await` on the store is one atomic step of a request.  Two        *)
(* schedulers run the same steps:                                          *)
(*   Spec      one request at a time (each handler runs to completion);    *)
(*   SpecConc  room requests interleave at their awaits;                   *)
(*   SpecApi   room, send-message and get-messages requests, one at a time; *)
(*   SpecCreate  create-room requests with any body, one at a time.        *)
(*                                                                         *)
(* Stored strings are kept in parsed form where the code's own round trip  *)
(* is exact (JSON.stringify/JSON.parse of a string array, toString/        *)
(* parseInt of a non-negative integer); isActive keeps its stored strings  *)
(* "true"/"false" because getChatRoom compares against 'true'.             *)
(***************************************************************************)
EXTENDS Integers, Sequences, FiniteSets, TLC

\* ------------------------------------------------------------------ bounds
MaxRooms == 2
MaxTime == 1
MaxMsgs == 3
\* stands for APP_CONSTANTS.MESSAGE_HISTORY_LIMIT (100 in the source), scaled
\* down so that a log can outgrow it
HistoryLimit == 2
\* requests explored from the empty store
MaxRequests == 3
MaxConnects == 2

\* ------------------------------------------------------------ input domains
Procs == {"p1", "p2"}
Users == {"u1", "u2", "u3"}
Creators == {"u1", "u2"}
Authors == {"u1"}
RoomIds == 1..MaxRooms
MsgKeys == 1..MaxMsgs
\* the rooms createMessage is called on: one log is enough to fill and to page
MsgRooms == {1}
INTEREST_TAGS == {"x", "y"}
InterestLists == {<<>>, <<"x">>, <<"x", "y">>}
Titles == {<<"A", "b">>}
Topic == <<"t", "B">>
Queries == {<<"a", "B">>, <<"x">>, <<"z">>}

\* limits the validators and the get-messages handler are written with
MessageMaxLength == 500
TitleMaxLength == 100
TopicMaxLength == 200
MAX_INTERESTS == 5
MaxAttempts == 3
maxReconnectAttempts == 5
reconnectDelay == 1000
DefaultLimit == 50
PageLimit == 50
RoomsLimit == 50
MAX_CHAT_ROOM_PARTICIPANTS == 50
MaxPageSize == 100

\* a text of n characters
Str(n) == [i \in 1..n |-> "a"]

\* a request body's interests that is no array
NotAnArray == <<"not an array">>

\* create-room bodies: one that passes every check, and bodies that differ from
\* it in the title, in the topic or in the interests
ValidBody == [title |-> Str(3), topic |-> Str(10), interests |-> <<"x">>]
TitleInputs == {<<>>, <<" ", " ">>, Str(2), <<" ", "a", "b", "c", " ">>,
                Str(TitleMaxLength), Str(TitleMaxLength + 1)}
TopicInputs == {<<>>, <<" ">>, Str(9), Str(TopicMaxLength), Str(TopicMaxLength + 1)}
InterestInputs == {<<>>, <<"x", "y">>, <<"q">>, <<"x", "q">>,
                   <<"x", "y", "x", "y", "x", "y">>, NotAnArray}
CreateBodies ==
  {ValidBody}
  \cup {[ValidBody EXCEPT !.title = t] : t \in TitleInputs}
  \cup {[ValidBody EXCEPT !.topic = t] : t \in TopicInputs}
  \cup {[ValidBody EXCEPT !.interests = i] : i \in InterestInputs}

\* send-message bodies
Contents == {<<>>, <<" ">>, <<"h", "i">>, Str(MessageMaxLength + 1)}
\* interest lists of up to and over MAX_INTERESTS entries; the catalog of the
\* model has two tags, so the long ones repeat them
UserInterestLists == {<<>>, <<"x">>, <<"y">>, <<"x", "y">>,
                      <<"x", "y", "x", "y", "x">>,
                      <<"x", "y", "x", "y", "x", "y">>}
UserInterestBodies == UserInterestLists \cup {NotAnArray, <<"x", "q">>}
\* interests of a create-room body: catalog ids, which the handler does not
\* require to differ
TaggedLists == {<<"x">>, <<"y">>, <<"x", "x">>, <<"x", "y">>}
InterestQueries == {<<>>, <<"x">>, <<"y">>, <<"x", "y">>}

VARIABLES
  rooms,        \* chatroom:{id}            hash, as a record of its fields
  active,       \* active_chatrooms         hash, as the set of its keys
  interestIdx,  \* interests:{tag}          hash per tag, as the set of its keys
  msgs,         \* chatroom:{id}:messages   sorted set, as a set of messages
  activeChats,  \* user:{id}:active_chats   hash per user, as the set of its keys
  now,          \* Date.now()
  nextRoom,     \* room ids handed out by generateId so far
  msgIds,       \* message ids handed out by generateId so far
  started,      \* requests that have arrived so far
  userInterests, \* user:{id}:interests     hash per user, as the set of its keys
  profiles,     \* user:{id}:profile       hash per user, as a record of its fields
  apiCall,      \* client: the ApiClient.request call in progress
  realtime,     \* client: the RealtimeClient and the transport under it
  chatPage,     \* client: the ChatRoom page
  discoveryPage, \* client: the Discovery page
  req,          \* per request slot: position and locals of the running call
  pre,          \* the store as it was when the running call started (Spec only)
  joinOrder     \* per room, the users in the order of their latest insertion into
                \* participants; kept only by the specifications that ask for it

userVars == <<userInterests, profiles>>

clientVars == <<apiCall, realtime, chatPage, discoveryPage>>

vars == <<rooms, active, interestIdx, msgs, activeChats, userVars, clientVars,
          now, nextRoom, msgIds, started, req, pre, joinOrder>>

\* ------------------------------------------------------------ store helpers
EmptyHash == [f \in {} |-> ""]

hSet(hash, fieldValues) == fieldValues @@ hash

Field(data, f, default) == IF f \in DOMAIN data THEN data[f] ELSE default

Includes(seq, x) == \E i \in 1..Len(seq) : seq[i] = x

Filter(seq, x) == SelectSeq(seq, LAMBDA e : e # x)

NullRoom == EmptyHash

IsNull(chatRoom) == "id" \notin DOMAIN chatRoom

\* getChatRoom: null when the hash has no id field, else the parsed record
GetChatRoom(data) ==
  IF "id" \notin DOMAIN data
  THEN NullRoom
  ELSE [id               |-> data["id"],
        title            |-> Field(data, "title", <<>>),
        topic            |-> Field(data, "topic", <<>>),
        creatorId        |-> Field(data, "creatorId", ""),
        participants     |-> Field(data, "participants", <<>>),
        participantCount |-> Field(data, "participantCount", 0),
        interests        |-> Field(data, "interests", <<>>),
        isActive         |-> (Field(data, "isActive", "") = "true"),
        createdAt        |-> Field(data, "createdAt", 0),
        lastActivity     |-> Field(data, "lastActivity", 0)]

\* the hash createChatRoom writes for a new room
NewRoomHash(id, title, topic, creatorId, interests, t) ==
  [id               |-> id,
   title            |-> title,
   topic            |-> topic,
   creatorId        |-> creatorId,
   participants     |-> <<creatorId>>,
   participantCount |-> 1,
   interests        |-> interests,
   isActive         |-> "true",
   createdAt        |-> t,
   lastActivity     |-> t]

\* mutant: the count is bumped instead of recomputed from the list written
MembershipFieldsCountOff(updatedParticipants, t) ==
  [participants     |-> updatedParticipants,
   participantCount |-> Len(updatedParticipants) + 1,
   lastActivity     |-> t]

\* the fields joinChatRoom / leaveChatRoom write
MembershipFields(updatedParticipants, t) ==
  [participants     |-> updatedParticipants,
   participantCount |-> Len(updatedParticipants),
   lastActivity     |-> t]

Reverse(s) == [i \in 1..Len(s) |-> s[Len(s) + 1 - i]]

\* ----------------------------------------------------------------- queries
\* String.prototype.toLowerCase on the characters the model uses
ToLowerCase(str) ==
  [i \in 1..Len(str) |->
     CASE str[i] = "A" -> "a" [] str[i] = "B" -> "b" [] OTHER -> str[i]]

\* String.prototype.includes
StrIncludes(str, sub) ==
  \E i \in 0..(Len(str) - Len(sub)) : SubSeq(str, i + 1, i + Len(sub)) = sub

\* String.prototype.trim on the characters the model uses
RECURSIVE TrimStart(_)
TrimStart(str) ==
  IF str # <<>> /\ Head(str) = " " THEN TrimStart(Tail(str)) ELSE str

Trim(str) == Reverse(TrimStart(Reverse(TrimStart(str))))

ValidateMessageContent(content) ==
  /\ Len(Trim(content)) # 0
  /\ Len(content) <= MessageMaxLength

ValidateChatRoomTitle(title) ==
  /\ Len(Trim(title)) # 0
  /\ Len(title) <= TitleMaxLength

ValidateChatRoomTopic(topic) ==
  /\ Len(Trim(topic)) # 0
  /\ Len(topic) <= TopicMaxLength

\* the create-room handler's checks of its body, in their order
CreateRequestCheck(title, topic, interests) ==
  IF ~ValidateChatRoomTitle(title) THEN "INVALID_TITLE"
  ELSE IF ~ValidateChatRoomTopic(topic) THEN "INVALID_TOPIC"
  ELSE IF interests = NotAnArray THEN "INVALID_INTERESTS"
  ELSE IF \E i \in 1..Len(interests) : interests[i] \notin INTEREST_TAGS
       THEN "INVALID_INTERESTS"
  ELSE "ok"

\* Math.min(Number(limit) || 50, 100)
LimitNum(limit) ==
  LET n == IF limit = 0 THEN DefaultLimit ELSE limit
  IN IF n < MaxPageSize THEN n ELSE MaxPageSize

\* an interest id as the text searchChatRooms matches against
TagText(tag) == <<tag>>

\* mutant: the isActive filter is missing
GetActiveChatRoomsUnfiltered ==
  {id \in active : ~IsNull(GetChatRoom(rooms[id]))}

\* getActiveChatRooms: the ids of the rooms it returns
GetActiveChatRooms ==
  {id \in active :
     LET chatRoom == GetChatRoom(rooms[id])
     IN ~IsNull(chatRoom) /\ chatRoom.isActive}

\* the keys of a hash of room ids, in the order hGetAll lists them: the order
\* the rooms were entered, which is the order of their ids
RECURSIVE ObjectKeys(_)
ObjectKeys(ids) ==
  IF ids = {} THEN <<>>
  ELSE LET first == CHOOSE id \in ids : \A other \in ids : id <= other
       IN <<first>> \o ObjectKeys(ids \ {first})

\* the ids of a list, as a Set holds them: each once, in the order first added
RECURSIVE Dedup(_)
Dedup(list) ==
  IF list = <<>> THEN <<>>
  ELSE LET front == Dedup(SubSeq(list, 1, Len(list) - 1))
           last  == list[Len(list)]
       IN IF Includes(front, last) THEN front ELSE Append(front, last)

\* the ids getChatRoomsByInterests collects, tag by tag
RECURSIVE ChatRoomIds(_)
ChatRoomIds(interests) ==
  IF interests = <<>> THEN <<>>
  ELSE ChatRoomIds(SubSeq(interests, 1, Len(interests) - 1))
       \o ObjectKeys(interestIdx[interests[Len(interests)]])

\* a.interests.filter(i => interests.includes(i)).length
Matches(chatRoom, interests) ==
  Len(SelectSeq(chatRoom.interests, LAMBDA i : Includes(interests, i)))

\* the comparator of the sort: negative when a comes first
Compare(a, b, interests) ==
  IF Matches(a, interests) # Matches(b, interests)
  THEN Matches(b, interests) - Matches(a, interests)
  ELSE b.lastActivity - a.lastActivity

\* Array.prototype.sort with that comparator: stable, so rooms that compare
\* equal keep the order they were collected in
RECURSIVE SortRooms(_, _)
SortRooms(ids, interests) ==
  IF ids = <<>> THEN <<>>
  ELSE LET front  == SortRooms(SubSeq(ids, 1, Len(ids) - 1), interests)
           last   == ids[Len(ids)]
           ahead  == {j \in 1..Len(front) :
                        Compare(GetChatRoom(rooms[last]),
                                GetChatRoom(rooms[front[j]]), interests) < 0}
           at     == IF ahead = {} THEN Len(front) + 1
                     ELSE CHOOSE j \in ahead : \A k \in ahead : j <= k
       IN SubSeq(front, 1, at - 1) \o <<last>> \o SubSeq(front, at, Len(front))

\* getActiveChatRooms: the ids of the rooms it returns, in their order. The
\* rooms are collected in the order of Object.keys (ascending ids) and sorted
\* by lastActivity, most recent first; the sort is stable, so rooms of equal
\* lastActivity stay in the order of their ids
ActiveChatRoomList ==
  LET ids == GetActiveChatRooms
      at(id) == GetChatRoom(rooms[id]).lastActivity
  IN CHOOSE list \in [1..Cardinality(ids) -> ids] :
       \A i, j \in 1..Cardinality(ids) :
         i < j => \/ at(list[i]) > at(list[j])
                  \/ at(list[i]) = at(list[j]) /\ list[i] < list[j]

\* getChatRoomsByInterests: the ids of the rooms it returns, in their order
GetChatRoomsByInterests(interests) ==
  IF Len(interests) = 0
  THEN ActiveChatRoomList
  ELSE SortRooms(SelectSeq(Dedup(ChatRoomIds(interests)),
                           LAMBDA id : LET chatRoom == GetChatRoom(rooms[id])
                                       IN ~IsNull(chatRoom) /\ chatRoom.isActive),
                 interests)

\* the elements of a list
Keys(list) == {list[i] : i \in 1..Len(list)}

\* searchChatRooms: the ids of the rooms it returns
SearchChatRooms(query) ==
  LET lowerQuery == ToLowerCase(query)
  IN {id \in GetActiveChatRooms :
        LET room == GetChatRoom(rooms[id])
        IN \/ StrIncludes(ToLowerCase(room.title), lowerQuery)
           \/ StrIncludes(ToLowerCase(room.topic), lowerQuery)
           \/ \E i \in 1..Len(room.interests) :
                StrIncludes(ToLowerCase(TagText(room.interests[i])), lowerQuery)}

\* GET /api/interests: the chatRoomCount of each tag of the catalog, the number
\* of keys of the tag's index hash
GetInterestTags ==
  [t \in INTEREST_TAGS |-> Len(ObjectKeys(interestIdx[t]))]

\* ------------------------------------------------------------ request slots
Idle == [pc |-> "idle", op |-> "none", id |-> 0, userId |-> "", title |-> <<>>,
         topic |-> <<>>, interests |-> <<>>, content |-> <<>>,
         chatRoom |-> NullRoom, todo |-> <<>>,
         success |-> FALSE, status |-> 0, messageCount |-> 0,
         tail |-> <<>>, published |-> FALSE, seen |-> <<>>, result |-> <<>>,
         profile |-> EmptyHash, threw |-> FALSE]

NoPre == <<>>

\* ------------------------------------------------------------ client state
\* no ApiClient.request call is in progress
NoCall == [pc |-> "idle", attempt |-> 0, responses |-> <<>>]

\* the RealtimeClient singleton as constructed, for the one channel the model
\* follows: whether connections holds the channel, its entry in
\* reconnectAttempts (0 when absent), the delays of the reconnect timers that
\* are pending, the connectRealtime calls not yet settled, the transport
\* connections that are open, NetworkMonitor's status and whether the client
\* listens to it; connectionStatus is what the callbacks of the caller of
\* connect have last set.  connects counts the calls of connect by the
\* application, series keeps the delays scheduled since reconnectAttempts was
\* last cleared, storedAtLoss the messages stored when the connection was last
\* reported lost, and missed the messages stored between such a loss and the
\* connection that followed it
NewRealtimeClient ==
  [connections |-> FALSE, reconnectAttempts |-> 0, timers |-> <<>>,
   calls |-> 0, links |-> 0, isOnline |-> TRUE, networkStatusListener |-> FALSE,
   connectionStatus |-> "none",
   connects |-> 0, series |-> <<>>, storedAtLoss |-> {}, missed |-> {}]

\* no ChatRoom page is mounted; a mounted one has its list of messages, its
\* getMessages call: not made, sent, or answered with a response, and its copy
\* of the room, null until loadChatRoom has set it
NoPage ==
  [mounted |-> FALSE, messages |-> <<>>, load |-> "none", response |-> <<>>,
   chatRoom |-> NullRoom]

\* the Discovery page before it is mounted: the ids of the rooms it lists, the
\* loadChatRooms calls not yet answered, the answers not yet applied, and
\* whether its connection to the discovery channel is open
NoDiscovery ==
  [mounted |-> FALSE, chatRooms |-> <<>>, pending |-> 0, answered |-> {},
   subscribed |-> FALSE]

\* the room whose page and channel the client opens, and the user it is
PageRoom == 1
PageUser == "u1"

\* the empty store and a client that has done nothing yet, for the users that
\* will send requests; tracked says whether the order of insertions is kept
InitWith(users, tracked) ==
  /\ rooms = [r \in RoomIds |-> EmptyHash]
  /\ active = {}
  /\ interestIdx = [t \in INTEREST_TAGS |-> {}]
  /\ msgs = [r \in RoomIds |-> {}]
  /\ activeChats = [u \in users |-> {}]
  /\ userInterests = [u \in users |-> {}]
  /\ profiles = [u \in users |-> EmptyHash]
  /\ apiCall = NoCall
  /\ realtime = NewRealtimeClient
  /\ chatPage = NoPage
  /\ discoveryPage = NoDiscovery
  /\ now = 0
  /\ nextRoom = 0
  /\ msgIds = {}
  /\ started = 0
  /\ req = [p \in Procs |-> Idle]
  /\ pre = NoPre
  /\ joinOrder = [tracked |-> tracked, order |-> [r \in RoomIds |-> <<>>]]

InitOf(users) == InitWith(users, FALSE)

Init == InitOf(Users)

\* ----------------------------------------------------------------- helpers
\* userId has just been put into the participants of room id
Inserted(id, userId) ==
  IF joinOrder.tracked
  THEN [joinOrder EXCEPT !.order[id] =
          Append(SelectSeq(@, LAMBDA u : u # userId), userId)]
  ELSE joinOrder

Set(p, fieldValues) == req' = [req EXCEPT ![p] = fieldValues @@ req[p]]

Snapshot == [rooms |-> rooms, active |-> active, interestIdx |-> interestIdx,
             msgs |-> msgs, activeChats |-> activeChats,
             userInterests |-> userInterests, profiles |-> profiles]

\* what a subscriber that queries the store can read: both repositories
StoreView == [rooms |-> rooms, active |-> active, interestIdx |-> interestIdx,
              msgs |-> msgs, activeChats |-> activeChats]

\* where a call goes when deactivateChatRoom returns to it
AfterDeactivate(op) ==
  IF op = "delete"
  THEN [pc |-> "delete_del"]
  ELSE [pc |-> "return", success |-> TRUE]

\* the status the request handler answers with when nothing throws;
\* createMessage is a bare repository call and answers with no status
ResponseStatus(op, success) ==
  CASE op = "create" -> 201
    [] op = "join"   -> IF success THEN 200 ELSE 404
    [] op = "leave"  -> IF success THEN 200 ELSE 404
    [] op = "delete" -> IF success THEN 200 ELSE 403
    [] op = "interests" -> 200
    [] OTHER         -> 0

\* sorted-set order: by score (timestamp), ties by member; the member is the
\* JSON text, which starts with the id, whose random part decides a tie
MsgBefore(a, b) ==
  \/ a.timestamp < b.timestamp
  \/ a.timestamp = b.timestamp /\ a.id < b.id

Rank(log, m) == Cardinality({x \in log : MsgBefore(x, m)})

\* zRemRangeByRank(key, 0, stop)
zRemRangeByRank(log, stop) == {m \in log : Rank(log, m) > stop}

\* the members of a sorted set in its order, lowest first
zRange(log) ==
  [i \in 1..Cardinality(log) |-> CHOOSE m \in log : Rank(log, m) = i - 1]

\* limit: { offset: 0, count }
Take(s, count) == SubSeq(s, 1, IF count < Len(s) THEN count ELSE Len(s))

\* getMessages called without its `before` argument
NoCursor == -1

\* getMessages: newest first, at most limit, below the exclusive bound `(before`
GetMessages(log, limit, before) ==
  LET inRange == {m \in log : before = NoCursor \/ m.timestamp < before}
  IN Take(Reverse(zRange(inRange)), limit)

\* getMessagesAfter: oldest first, above the exclusive bound `(timestamp`
GetMessagesAfter(log, timestamp) ==
  zRange({m \in log : m.timestamp > timestamp})

\* mutant: no test for an existing participant
JoinChatRoomCheckNoDedup(chatRoom, userId) ==
  IF IsNull(chatRoom) \/ ~chatRoom.isActive THEN "false"
  ELSE "hSet"

\* mutant: no test of isActive
JoinChatRoomCheckAnyRoom(chatRoom, userId) ==
  IF IsNull(chatRoom) THEN "false"
  ELSE IF Includes(chatRoom.participants, userId) THEN "true"
  ELSE "hSet"

\* joinChatRoom after its read: false (not found or inactive), true (already a
\* participant), or go on to the write
JoinChatRoomCheck(chatRoom, userId) ==
  IF IsNull(chatRoom) \/ ~chatRoom.isActive THEN "false"
  ELSE IF Includes(chatRoom.participants, userId) THEN "true"
  ELSE "hSet"

\* mutant: the empty list is written like any other, without deactivating
LeaveChatRoomCheckNoDeactivate(chatRoom, userId) ==
  IF IsNull(chatRoom) THEN "false"
  ELSE "hSet"

\* leaveChatRoom after its read: false (not found), deactivate (nobody would be
\* left), or go on to the write
LeaveChatRoomCheck(chatRoom, userId) ==
  IF IsNull(chatRoom) THEN "false"
  ELSE IF Len(Filter(chatRoom.participants, userId)) = 0 THEN "deactivate"
  ELSE "hSet"

\* mutant: no test of the creator
DeleteChatRoomCheckAnyone(chatRoom, userId) ==
  IF IsNull(chatRoom) THEN "false"
  ELSE "deactivate"

\* deleteChatRoom after its read: false (not found or not the creator), or go on
DeleteChatRoomCheck(chatRoom, userId) ==
  IF IsNull(chatRoom) \/ chatRoom.creatorId # userId THEN "false"
  ELSE "deactivate"

\* ------------------------------------------------------------ the requests
\* a request arrives: its operation and arguments
BeginUpTo(p, op, args, max) ==
  /\ req[p].pc = "idle"
  /\ started < max
  /\ started' = started + 1
  /\ Set(p, [pc |-> op \o "_first", op |-> op] @@ args)
  /\ UNCHANGED <<joinOrder, clientVars, userVars, activeChats, rooms, active, interestIdx, msgs, now, nextRoom, msgIds>>

BeginWith(p, op, args) == BeginUpTo(p, op, args, MaxRequests)

Begin(p, op, id, userId, title, interests) ==
  BeginWith(p, op, [id |-> id, userId |-> userId, title |-> title,
                    topic |-> IF op = "create" THEN Topic ELSE <<>>,
                    interests |-> interests])

\* requests that have arrived and not yet drawn their id
Pending(op) == Cardinality({q \in Procs : req[q].pc = op \o "_first"})

\* a create, join, leave or delete request, the latter three by one of callers
ArriveRoom(p, callers) ==
  \/ /\ nextRoom + Pending("create") < MaxRooms
     /\ \E u \in Creators, t \in Titles, i \in InterestLists :
          Begin(p, "create", 0, u, t, i)
  \/ \E o \in {"join", "leave", "delete"}, r \in RoomIds, u \in callers :
          Begin(p, o, r, u, <<>>, <<>>)

\* a createMessage call
ArriveMessage(p) ==
  /\ Cardinality(msgIds) + Pending("message") < MaxMsgs
  /\ \E r \in MsgRooms, u \in Authors : Begin(p, "message", r, u, <<>>, <<>>)

\* a send-message or get-messages request
ArriveMessaging(p) ==
  \/ \E r \in RoomIds, u \in Creators, c \in Contents :
       BeginWith(p, "send", [id |-> r, userId |-> u, content |-> c])
  \/ \E r \in RoomIds, u \in Creators :
       BeginWith(p, "read", [id |-> r, userId |-> u])

\* a create-room request with any of the bodies
ArriveCreate(p) ==
  /\ nextRoom + Pending("create") < MaxRooms
  /\ \E u \in Authors, b \in CreateBodies :
       BeginWith(p, "create", [userId |-> u, title |-> b.title,
                               topic |-> b.topic, interests |-> b.interests])

\* a set-interests request, or a bare setUserInterests call
ArriveUser(p) ==
  \/ \E u \in Creators, i \in UserInterestBodies :
       BeginWith(p, "interests", [userId |-> u, interests |-> i])
  \/ \E u \in Creators, i \in UserInterestLists :
       BeginWith(p, "setInterests", [userId |-> u, interests |-> i])

\* a create-room request whose interests repeat a tag, or do not
ArriveTagged(p) ==
  /\ nextRoom + Pending("create") < MaxRooms
  /\ \E u \in Authors, t \in Titles, i \in TaggedLists :
       Begin(p, "create", 0, u, t, i)

\* the requests of a run without interleaving: two users are enough to be
\* creator and non-creator, member and non-member
Arrive(p) == ArriveRoom(p, Creators) \/ ArriveMessage(p)

\* POST /api/chatrooms answers 400 to a body that fails a check
CreateReject(p) ==
  /\ req[p].pc = "create_first"
  /\ CreateRequestCheck(req[p].title, req[p].topic, req[p].interests) # "ok"
  /\ Set(p, [pc |-> "done", status |-> 400])
  /\ UNCHANGED <<joinOrder, clientVars, userVars, activeChats, rooms, active, interestIdx, msgs, now, nextRoom, msgIds, started, pre>>

\* ChatRoomRepository.createChatRoom, called with the trimmed title and topic
\* of a body that passed the checks
CreateHSet(p) ==
  /\ req[p].pc = "create_first"
  /\ CreateRequestCheck(req[p].title, req[p].topic, req[p].interests) = "ok"
  /\ LET id == nextRoom + 1
         h == NewRoomHash(id, Trim(req[p].title), Trim(req[p].topic),
                          req[p].userId, req[p].interests, now)
     IN /\ rooms' = [rooms EXCEPT ![id] = hSet(@, h)]
        /\ nextRoom' = id
        /\ joinOrder' = Inserted(id, req[p].userId)
        /\ Set(p, [pc |-> "create_active", id |-> id, chatRoom |-> GetChatRoom(h)])
  /\ UNCHANGED <<clientVars, userVars, activeChats, active, interestIdx, msgs, now, msgIds, started, pre>>

CreateActive(p) ==
  /\ req[p].pc = "create_active"
  /\ active' = active \cup {req[p].id}
  /\ IF req[p].interests = <<>>
     THEN Set(p, [pc |-> "return", success |-> TRUE])
     ELSE Set(p, [pc |-> "create_index", todo |-> req[p].interests])
  /\ UNCHANGED <<joinOrder, clientVars, userVars, activeChats, rooms, interestIdx, msgs, now, nextRoom, msgIds, started, pre>>

\* mutant: only the first tag's index gets the room
CreateIndexFirstOnly(p) ==
  /\ req[p].pc = "create_index"
  /\ interestIdx' = [interestIdx EXCEPT ![Head(req[p].todo)] = @ \cup {req[p].id}]
  /\ Set(p, [pc |-> "return", success |-> TRUE, todo |-> <<>>])
  /\ UNCHANGED <<joinOrder, clientVars, userVars, activeChats, rooms, active, msgs, now, nextRoom, msgIds, started, pre>>

CreateIndex(p) ==
  /\ req[p].pc = "create_index"
  /\ interestIdx' = [interestIdx EXCEPT ![Head(req[p].todo)] = @ \cup {req[p].id}]
  /\ IF Tail(req[p].todo) = <<>>
     THEN Set(p, [pc |-> "return", success |-> TRUE, todo |-> <<>>])
     ELSE Set(p, [todo |-> Tail(req[p].todo)])
  /\ UNCHANGED <<joinOrder, clientVars, userVars, activeChats, rooms, active, msgs, now, nextRoom, msgIds, started, pre>>

\* ChatRoomRepository.joinChatRoom
JoinGet(p) ==
  /\ req[p].pc = "join_first"
  /\ LET chatRoom == GetChatRoom(rooms[req[p].id])
         check == JoinChatRoomCheck(chatRoom, req[p].userId)
     IN IF check = "hSet"
        THEN Set(p, [pc |-> "join_hSet", chatRoom |-> chatRoom])
        ELSE Set(p, [pc |-> "return", success |-> (check = "true"),
                     chatRoom |-> chatRoom])
  /\ UNCHANGED <<joinOrder, clientVars, userVars, activeChats, rooms, active, interestIdx, msgs, now, nextRoom, msgIds, started, pre>>

JoinHSet(p) ==
  /\ req[p].pc = "join_hSet"
  /\ LET updatedParticipants == Append(req[p].chatRoom.participants, req[p].userId)
     IN rooms' = [rooms EXCEPT ![req[p].id] =
                    hSet(@, MembershipFields(updatedParticipants, now))]
  /\ joinOrder' = Inserted(req[p].id, req[p].userId)
  /\ Set(p, [pc |-> "return", success |-> TRUE])
  /\ UNCHANGED <<clientVars, userVars, activeChats, active, interestIdx, msgs, now, nextRoom, msgIds, started, pre>>

\* ChatRoomRepository.leaveChatRoom
LeaveGet(p) ==
  /\ req[p].pc = "leave_first"
  /\ LET chatRoom == GetChatRoom(rooms[req[p].id])
         check == LeaveChatRoomCheck(chatRoom, req[p].userId)
     IN IF check = "false"
        THEN Set(p, [pc |-> "return", success |-> FALSE, chatRoom |-> chatRoom])
        ELSE IF check = "deactivate"
        THEN Set(p, [pc |-> "deact_get", chatRoom |-> chatRoom])
        ELSE Set(p, [pc |-> "leave_hSet", chatRoom |-> chatRoom])
  /\ UNCHANGED <<joinOrder, clientVars, userVars, activeChats, rooms, active, interestIdx, msgs, now, nextRoom, msgIds, started, pre>>

LeaveHSet(p) ==
  /\ req[p].pc = "leave_hSet"
  /\ LET updatedParticipants == Filter(req[p].chatRoom.participants, req[p].userId)
     IN rooms' = [rooms EXCEPT ![req[p].id] =
                    hSet(@, MembershipFields(updatedParticipants, now))]
  /\ Set(p, [pc |-> "return", success |-> TRUE])
  /\ UNCHANGED <<joinOrder, clientVars, userVars, activeChats, active, interestIdx, msgs, now, nextRoom, msgIds, started, pre>>

\* ChatRoomRepository.deactivateChatRoom, called by leave and delete
DeactGet(p) ==
  /\ req[p].pc = "deact_get"
  /\ LET chatRoom == GetChatRoom(rooms[req[p].id])
     IN IF IsNull(chatRoom)
        THEN Set(p, [chatRoom |-> chatRoom] @@ AfterDeactivate(req[p].op))
        ELSE Set(p, [pc |-> "deact_hSet", chatRoom |-> chatRoom])
  /\ UNCHANGED <<joinOrder, clientVars, userVars, activeChats, rooms, active, interestIdx, msgs, now, nextRoom, msgIds, started, pre>>

DeactHSet(p) ==
  /\ req[p].pc = "deact_hSet"
  /\ rooms' = [rooms EXCEPT ![req[p].id] = hSet(@, [isActive |-> "false"])]
  /\ Set(p, [pc |-> "deact_hDel"])
  /\ UNCHANGED <<joinOrder, clientVars, userVars, activeChats, active, interestIdx, msgs, now, nextRoom, msgIds, started, pre>>

\* mutant: deactivation also deletes the room's messages
DeactHDelPurges(p) ==
  /\ req[p].pc = "deact_hDel"
  /\ active' = active \ {req[p].id}
  /\ msgs' = [msgs EXCEPT ![req[p].id] = {}]
  /\ IF req[p].chatRoom.interests = <<>>
     THEN Set(p, AfterDeactivate(req[p].op))
     ELSE Set(p, [pc |-> "deact_index", todo |-> req[p].chatRoom.interests])
  /\ UNCHANGED <<joinOrder, clientVars, userVars, activeChats, rooms, interestIdx, now, nextRoom, msgIds, started, pre>>

DeactHDel(p) ==
  /\ req[p].pc = "deact_hDel"
  /\ active' = active \ {req[p].id}
  /\ IF req[p].chatRoom.interests = <<>>
     THEN Set(p, AfterDeactivate(req[p].op))
     ELSE Set(p, [pc |-> "deact_index", todo |-> req[p].chatRoom.interests])
  /\ UNCHANGED <<joinOrder, clientVars, userVars, activeChats, rooms, interestIdx, msgs, now, nextRoom, msgIds, started, pre>>

\* mutant: only the index of the room's first interest loses the room
DeactIndexFirstOnly(p) ==
  /\ req[p].pc = "deact_index"
  /\ interestIdx' = [interestIdx EXCEPT ![Head(req[p].todo)] = @ \ {req[p].id}]
  /\ Set(p, [todo |-> <<>>] @@ AfterDeactivate(req[p].op))
  /\ UNCHANGED <<joinOrder, clientVars, userVars, activeChats, rooms, active, msgs, now, nextRoom, msgIds, started, pre>>

DeactIndex(p) ==
  /\ req[p].pc = "deact_index"
  /\ interestIdx' = [interestIdx EXCEPT ![Head(req[p].todo)] = @ \ {req[p].id}]
  /\ IF Tail(req[p].todo) = <<>>
     THEN Set(p, [todo |-> <<>>] @@ AfterDeactivate(req[p].op))
     ELSE Set(p, [todo |-> Tail(req[p].todo)])
  /\ UNCHANGED <<joinOrder, clientVars, userVars, activeChats, rooms, active, msgs, now, nextRoom, msgIds, started, pre>>

\* ChatRoomRepository.deleteChatRoom
DeleteGet(p) ==
  /\ req[p].pc = "delete_first"
  /\ LET chatRoom == GetChatRoom(rooms[req[p].id])
         check == DeleteChatRoomCheck(chatRoom, req[p].userId)
     IN IF check = "false"
        THEN Set(p, [pc |-> "return", success |-> FALSE, chatRoom |-> chatRoom])
        ELSE Set(p, [pc |-> "deact_get", chatRoom |-> chatRoom])
  /\ UNCHANGED <<joinOrder, clientVars, userVars, activeChats, rooms, active, interestIdx, msgs, now, nextRoom, msgIds, started, pre>>

DeleteDel(p) ==
  /\ req[p].pc = "delete_del"
  /\ rooms' = [rooms EXCEPT ![req[p].id] = EmptyHash]
  /\ Set(p, [pc |-> "delete_delMsgs"])
  /\ UNCHANGED <<joinOrder, clientVars, userVars, activeChats, active, interestIdx, msgs, now, nextRoom, msgIds, started, pre>>

\* mutant: the message log is not deleted
DeleteKeepMsgs(p) ==
  /\ req[p].pc = "delete_delMsgs"
  /\ Set(p, [pc |-> "return", success |-> TRUE])
  /\ UNCHANGED <<joinOrder, clientVars, userVars, activeChats, rooms, active, interestIdx, msgs, now, nextRoom, msgIds, started, pre>>

DeleteDelMsgs(p) ==
  /\ req[p].pc = "delete_delMsgs"
  /\ msgs' = [msgs EXCEPT ![req[p].id] = {}]
  /\ Set(p, [pc |-> "return", success |-> TRUE])
  /\ UNCHANGED <<joinOrder, clientVars, userVars, activeChats, rooms, active, interestIdx, now, nextRoom, msgIds, started, pre>>

\* MessageRepository.createMessage; seq is not stored, it numbers the messages
\* in the order of their creation so that properties can speak of that order
MsgZAdd(p) ==
  /\ req[p].pc = "message_first"
  /\ \E k \in MsgKeys \ msgIds :
       LET message == [id |-> k, chatRoomId |-> req[p].id,
                       userId |-> req[p].userId, timestamp |-> now,
                       seq |-> Cardinality(msgIds) + 1]
       IN /\ msgs' = [msgs EXCEPT ![req[p].id] = @ \cup {message}]
          /\ msgIds' = msgIds \cup {k}
          /\ Set(p, [pc |-> "message_zCard", message |-> k])
  /\ UNCHANGED <<joinOrder, clientVars, userVars, activeChats, rooms, active, interestIdx, now, nextRoom, started, pre>>

MsgZCard(p) ==
  /\ req[p].pc = "message_zCard"
  /\ LET messageCount == Cardinality(msgs[req[p].id])
     IN IF messageCount > HistoryLimit
        THEN Set(p, [pc |-> "message_zRem", messageCount |-> messageCount])
        ELSE Set(p, [pc |-> "return", success |-> TRUE,
                     messageCount |-> messageCount])
  /\ UNCHANGED <<joinOrder, clientVars, userVars, activeChats, rooms, active, interestIdx, msgs, now, nextRoom, msgIds, started, pre>>

MsgZRem(p) ==
  /\ req[p].pc = "message_zRem"
  /\ LET toRemove == req[p].messageCount - HistoryLimit
     IN msgs' = [msgs EXCEPT ![req[p].id] = zRemRangeByRank(@, toRemove - 1)]
  /\ Set(p, [pc |-> "return", success |-> TRUE])
  /\ UNCHANGED <<joinOrder, clientVars, userVars, activeChats, rooms, active, interestIdx, now, nextRoom, msgIds, started, pre>>

\* mutant: the handlers publish first and update the active-chat set afterwards
HandlerTailPublishFirst(op) ==
  IF op = "delete" THEN <<"publish">> ELSE <<"publish", "activeChat">>

\* what a handler still does once its repository call has succeeded: create,
\* join and leave update the caller's active chats, then all four publish
HandlerTail(op) ==
  IF op = "delete" THEN <<"publish">> ELSE <<"activeChat", "publish">>

\* the handler moves on to its next await, or answers when none is left
Continue(op, rest) ==
  IF rest = <<>>
  THEN [pc |-> "done", status |-> ResponseStatus(op, TRUE), tail |-> <<>>]
  ELSE [pc |-> Head(rest), tail |-> Tail(rest)]

\* mutant: no test of isActive
SendCheckAnyRoom(content, chatRoom, userId) ==
  IF ~ValidateMessageContent(content) THEN 400
  ELSE IF IsNull(chatRoom) THEN 404
  ELSE IF ~Includes(chatRoom.participants, userId) THEN 403
  ELSE 500

\* POST /api/chatrooms/:id/messages up to its createMessage call: the status of
\* the check that fails, or 500 when all pass, because the next statement reads
\* ContentValidator, a name the server module neither imports nor declares, and
\* the ReferenceError lands in the handler's catch
SendCheck(content, chatRoom, userId) ==
  IF ~ValidateMessageContent(content) THEN 400
  ELSE IF IsNull(chatRoom) THEN 404
  ELSE IF ~chatRoom.isActive THEN 403
  ELSE IF ~Includes(chatRoom.participants, userId) THEN 403
  ELSE 500

SendGet(p) ==
  /\ req[p].pc = "send_first"
  /\ LET chatRoom == GetChatRoom(rooms[req[p].id])
     IN Set(p, [pc |-> "done", chatRoom |-> chatRoom,
                status |-> SendCheck(req[p].content, chatRoom, req[p].userId)])
  /\ UNCHANGED <<joinOrder, clientVars, userVars, activeChats, rooms, active, interestIdx, msgs, now, nextRoom, msgIds, started, pre>>

\* GET /api/chatrooms/:id/messages
ReadGet(p) ==
  /\ req[p].pc = "read_first"
  /\ LET chatRoom == GetChatRoom(rooms[req[p].id])
     IN IF IsNull(chatRoom)
        THEN Set(p, [pc |-> "done", status |-> 404, chatRoom |-> chatRoom])
        ELSE IF ~Includes(chatRoom.participants, req[p].userId)
        THEN Set(p, [pc |-> "done", status |-> 403, chatRoom |-> chatRoom])
        ELSE Set(p, [pc |-> "read_getMessages", chatRoom |-> chatRoom])
  /\ UNCHANGED <<joinOrder, clientVars, userVars, activeChats, rooms, active, interestIdx, msgs, now, nextRoom, msgIds, started, pre>>

ReadGetMessages(p) ==
  /\ req[p].pc = "read_getMessages"
  /\ Set(p, [pc |-> "done", status |-> 200,
             result |-> GetMessages(msgs[req[p].id], LimitNum(0), NoCursor)])
  /\ UNCHANGED <<joinOrder, clientVars, userVars, activeChats, rooms, active, interestIdx, msgs, now, nextRoom, msgIds, started, pre>>

\* the repository call returns to the handler, which answers at once when the
\* call failed
Return(p) ==
  /\ req[p].pc = "return"
  /\ IF req[p].op = "message" \/ ~req[p].success
     THEN Set(p, [pc |-> "done",
                  status |-> ResponseStatus(req[p].op, req[p].success)])
     ELSE Set(p, Continue(req[p].op, HandlerTail(req[p].op)))
  /\ UNCHANGED <<joinOrder, clientVars, userVars, activeChats, rooms, active, interestIdx, msgs, now, nextRoom, msgIds, started, pre>>

\* --------------------------------------------------------- user repository
NullProfile == EmptyHash

NoProfile(profile) == "id" \notin DOMAIN profile

\* getUserProfile: null when the hash has no id field, else the parsed record
GetUserProfile(data) ==
  IF "id" \notin DOMAIN data
  THEN NullProfile
  ELSE [id          |-> data["id"],
        username    |-> Field(data, "username", ""),
        interests   |-> Field(data, "interests", <<>>),
        activeChats |-> Field(data, "activeChats", {}),
        createdAt   |-> Field(data, "createdAt", 0)]

\* getUserInterests: the keys of the user's interest hash
GetUserInterests(userId) == userInterests[userId]

\* POST /api/user/interests: the handler's checks of its body, in their order
InterestsRequestCheck(interests) ==
  IF interests = NotAnArray THEN "INVALID_INPUT"
  ELSE IF \E i \in 1..Len(interests) : interests[i] \notin INTEREST_TAGS
       THEN "INVALID_INTERESTS"
  ELSE IF Len(interests) > MAX_INTERESTS THEN "TOO_MANY_INTERESTS"
  ELSE "ok"

\* the handler answers 400 to a body that fails a check, else it calls
\* setUserInterests and then createOrUpdateUserProfile
InterestsFirst(p) ==
  /\ req[p].pc = "interests_first"
  /\ IF InterestsRequestCheck(req[p].interests) # "ok"
     THEN Set(p, [pc |-> "done", status |-> 400])
     ELSE Set(p, [pc |-> "set_del", tail |-> <<"profile_get">>])
  /\ UNCHANGED <<joinOrder, clientVars, userVars, activeChats, rooms, active, interestIdx, msgs, now, nextRoom, msgIds, started, pre>>

\* a throw inside a repository call: the handler's catch answers 500, a bare
\* call rejects
Thrown(op) ==
  [pc |-> "done", threw |-> TRUE, tail |-> <<>>,
   status |-> IF op = "interests" THEN 500 ELSE 0]

\* mutant: the old hash is not deleted
SetDelKeeps(p) ==
  /\ req[p].pc \in {"setInterests_first", "set_del"}
  /\ IF Len(req[p].interests) > MAX_INTERESTS
     THEN Set(p, Thrown(req[p].op))
     ELSE Set(p, [pc |-> IF Len(req[p].interests) > 0 THEN "set_hSet" ELSE "set_get"])
  /\ UNCHANGED <<joinOrder, clientVars, userVars, activeChats, rooms, active, interestIdx, msgs, now, nextRoom, msgIds, started, pre>>

\* setUserInterests: the test of the number of interests, then the del of the
\* user's interest hash
SetDel(p) ==
  /\ req[p].pc \in {"setInterests_first", "set_del"}
  /\ IF Len(req[p].interests) > MAX_INTERESTS
     THEN /\ Set(p, Thrown(req[p].op))
          /\ UNCHANGED userInterests
     ELSE /\ userInterests' = [userInterests EXCEPT ![req[p].userId] = {}]
          /\ Set(p, [pc |-> IF Len(req[p].interests) > 0 THEN "set_hSet" ELSE "set_get"])
  /\ UNCHANGED <<joinOrder, clientVars, profiles, activeChats, rooms, active, interestIdx, msgs, now, nextRoom, msgIds, started, pre>>

\* setUserInterests: one field per interest
SetHSet(p) ==
  /\ req[p].pc = "set_hSet"
  /\ userInterests' = [userInterests EXCEPT ![req[p].userId] =
                         @ \cup Keys(req[p].interests)]
  /\ Set(p, [pc |-> "set_get"])
  /\ UNCHANGED <<joinOrder, clientVars, profiles, activeChats, rooms, active, interestIdx, msgs, now, nextRoom, msgIds, started, pre>>

\* setUserInterests reads the profile and returns when there is none
SetGet(p) ==
  /\ req[p].pc = "set_get"
  /\ LET profile == GetUserProfile(profiles[req[p].userId])
     IN IF NoProfile(profile)
        THEN Set(p, Continue(req[p].op, req[p].tail) @@ [profile |-> profile])
        ELSE Set(p, [pc |-> "set_profile", profile |-> profile])
  /\ UNCHANGED <<joinOrder, clientVars, userVars, activeChats, rooms, active, interestIdx, msgs, now, nextRoom, msgIds, started, pre>>

\* setUserInterests writes the interests into the profile it found
SetProfile(p) ==
  /\ req[p].pc = "set_profile"
  /\ profiles' = [profiles EXCEPT ![req[p].userId] =
                    hSet(@, [interests |-> req[p].interests])]
  /\ Set(p, Continue(req[p].op, req[p].tail))
  /\ UNCHANGED <<joinOrder, clientVars, userInterests, activeChats, rooms, active, interestIdx, msgs, now, nextRoom, msgIds, started, pre>>

\* createOrUpdateUserProfile reads the profile there is
ProfileGet(p) ==
  /\ req[p].pc = "profile_get"
  /\ Set(p, [pc |-> "profile_hSet",
             profile |-> GetUserProfile(profiles[req[p].userId])])
  /\ UNCHANGED <<joinOrder, clientVars, userVars, activeChats, rooms, active, interestIdx, msgs, now, nextRoom, msgIds, started, pre>>

\* the hash createOrUpdateUserProfile writes; the handler always passes a list
\* of interests, and a list, even an empty one, is truthy
NewProfileHash(userId, interests, existingProfile, t) ==
  [id          |-> userId,
   username    |-> userId,
   interests   |-> interests,
   activeChats |-> IF NoProfile(existingProfile) THEN {}
                   ELSE existingProfile.activeChats,
   createdAt   |-> IF NoProfile(existingProfile) \/ existingProfile.createdAt = 0
                   THEN t ELSE existingProfile.createdAt]

\* createOrUpdateUserProfile writes the profile, and calls setUserInterests
\* when the list is not empty
ProfileHSet(p) ==
  /\ req[p].pc = "profile_hSet"
  /\ profiles' = [profiles EXCEPT ![req[p].userId] =
                    hSet(@, NewProfileHash(req[p].userId, req[p].interests,
                                           req[p].profile, now))]
  /\ IF Len(req[p].interests) > 0
     THEN Set(p, [pc |-> "set_del", tail |-> <<>>])
     ELSE Set(p, Continue(req[p].op, <<>>))
  /\ UNCHANGED <<joinOrder, clientVars, userInterests, activeChats, rooms, active, interestIdx, msgs, now, nextRoom, msgIds, started, pre>>

\* mutant: the room is added whatever the request
ActiveChatAddOnly(p) ==
  /\ req[p].pc = "activeChat"
  /\ activeChats' = [activeChats EXCEPT ![req[p].userId] = @ \cup {req[p].id}]
  /\ Set(p, Continue(req[p].op, req[p].tail))
  /\ UNCHANGED <<joinOrder, clientVars, userVars, rooms, active, interestIdx, msgs, now, nextRoom, msgIds, started, pre>>

\* addUserToActiveChat / removeUserFromActiveChat: the write to the user's
\* active-chat hash, then the refresh of the profile's copy when a profile exists
ActiveChat(p) ==
  /\ req[p].pc = "activeChat"
  /\ LET updated == IF req[p].op = "leave"
                    THEN activeChats[req[p].userId] \ {req[p].id}
                    ELSE activeChats[req[p].userId] \cup {req[p].id}
     IN /\ activeChats' = [activeChats EXCEPT ![req[p].userId] = updated]
        /\ profiles' = [profiles EXCEPT ![req[p].userId] =
                          IF NoProfile(GetUserProfile(@)) THEN @
                          ELSE hSet(@, [activeChats |-> updated])]
  /\ Set(p, Continue(req[p].op, req[p].tail))
  /\ UNCHANGED <<joinOrder, clientVars, userInterests, rooms, active, interestIdx, msgs, now, nextRoom, msgIds, started, pre>>

\* CHANNELS: the discovery channel, and the channel of a room
Discovery == <<"discovery">>
ChatRoomChannel(id) == <<"chatroom", id>>

\* the channel RealtimeService sends a handler's notification on
Channel(op, id) ==
  IF op \in {"create", "delete"} THEN Discovery ELSE ChatRoomChannel(id)

\* the type of the event it sends
EventType(op) ==
  CASE op = "create" -> "room_created"
    [] op = "delete" -> "room_deleted"
    [] op = "join"   -> "user_joined"
    [] OTHER         -> "user_left"

\* DiscoveryPage.handleRealtimeMessage: room_created starts a loadChatRooms
\* call, room_deleted takes the room out of the list, anything else is ignored
HandleRealtimeMessage(page, type, chatRoomId) ==
  CASE type = "room_created" -> [page EXCEPT !.pending = @ + 1]
    [] type = "room_deleted" ->
         [page EXCEPT !.chatRooms = SelectSeq(@, LAMBDA id : id # chatRoomId)]
    [] OTHER -> page

\* ChatRoom.handleRealtimeMessage for the two membership events: nothing
\* while the page has no copy of the room, else the count goes up or down by
\* one, not below 0, and the user is appended or filtered out
ChatRoomHandleRealtimeMessage(page, type, userId) ==
  IF IsNull(page.chatRoom) THEN page
  ELSE CASE type = "user_joined" ->
              [page EXCEPT !.chatRoom.participantCount = @ + 1,
                           !.chatRoom.participants = Append(@, userId)]
         [] type = "user_left" ->
              [page EXCEPT !.chatRoom.participantCount =
                             IF @ - 1 > 0 THEN @ - 1 ELSE 0,
                           !.chatRoom.participants = Filter(@, userId)]
         [] OTHER -> page

\* realtime.send resolves: the event is out, and its subscribers read the store
\* as it is now
PublishSent(p) ==
  /\ req[p].pc = "publish"
  /\ Set(p, Continue(req[p].op, req[p].tail)
             @@ [published |-> TRUE, seen |-> StoreView])
  /\ discoveryPage' =
       IF Channel(req[p].op, req[p].id) = Discovery /\ discoveryPage.subscribed
       THEN HandleRealtimeMessage(discoveryPage, EventType(req[p].op), req[p].id)
       ELSE discoveryPage
  /\ chatPage' =
       IF /\ Channel(req[p].op, req[p].id) = ChatRoomChannel(PageRoom)
          /\ chatPage.mounted /\ realtime.links > 0
       THEN ChatRoomHandleRealtimeMessage(chatPage, EventType(req[p].op),
                                          req[p].userId)
       ELSE chatPage
  /\ UNCHANGED <<joinOrder, apiCall, realtime, userVars, activeChats, rooms, active, interestIdx, msgs, now, nextRoom, msgIds, started, pre>>

\* realtime.send rejects: the handler's catch answers 500
PublishThrows(p) ==
  /\ req[p].pc = "publish"
  /\ Set(p, [pc |-> "done", status |-> 500, tail |-> <<>>])
  /\ UNCHANGED <<joinOrder, clientVars, userVars, activeChats, rooms, active, interestIdx, msgs, now, nextRoom, msgIds, started, pre>>

\* the slot is free for the next request
Finish(p) ==
  /\ req[p].pc = "done"
  /\ req' = [req EXCEPT ![p] = Idle]
  /\ pre' = NoPre
  /\ UNCHANGED <<joinOrder, clientVars, userVars, activeChats, rooms, active, interestIdx, msgs, now, nextRoom, msgIds, started>>

\* Date.now() moves on
Tick ==
  /\ now < MaxTime
  /\ now' = now + 1
  /\ UNCHANGED <<joinOrder, clientVars, userVars, activeChats, rooms, active, interestIdx, msgs, nextRoom, msgIds, started, req, pre>>

RoomSteps(p) ==
  \/ CreateHSet(p) \/ CreateActive(p) \/ CreateIndex(p)
  \/ JoinGet(p) \/ JoinHSet(p)
  \/ LeaveGet(p) \/ LeaveHSet(p)
  \/ DeactGet(p) \/ DeactHSet(p) \/ DeactHDel(p) \/ DeactIndex(p)
  \/ DeleteGet(p) \/ DeleteDel(p) \/ DeleteDelMsgs(p)

MessageSteps(p) == MsgZAdd(p) \/ MsgZCard(p) \/ MsgZRem(p)

HandlerSteps(p) ==
  \/ Return(p) \/ ActiveChat(p) \/ PublishSent(p) \/ PublishThrows(p)
  \/ Finish(p)

Step(p) == RoomSteps(p) \/ MessageSteps(p) \/ HandlerSteps(p)

MessagingSteps(p) == SendGet(p) \/ ReadGet(p) \/ ReadGetMessages(p)

CreateSteps(p) ==
  \/ CreateReject(p) \/ CreateHSet(p) \/ CreateActive(p) \/ CreateIndex(p)

\* one request at a time: a request arrives only when no other is running
Quiescent == \A q \in Procs : req[q].pc = "idle"

ArriveAlone(p) ==
  /\ Quiescent
  /\ Arrive(p)
  /\ pre' = Snapshot

\* a call reads Date.now() at most once, so between calls is the only place
\* where the clock's advance shows in a run without interleaving
TickAlone ==
  /\ Quiescent
  /\ Tick

\* requests interleave at their awaits
ArriveAny(p) ==
  /\ ArriveRoom(p, Users)
  /\ pre' = pre

SeqProc == "p1"

Next == ArriveAlone(SeqProc) \/ Step(SeqProc) \/ TickAlone

NextConc == \/ \E p \in Procs : ArriveAny(p) \/ RoomSteps(p) \/ HandlerSteps(p)
            \/ Tick

\* room and messaging requests, one at a time
ArriveApi(p) ==
  /\ Quiescent
  /\ ArriveRoom(p, Creators) \/ ArriveMessaging(p)
  /\ pre' = Snapshot

NextApi ==
  \/ ArriveApi(SeqProc)
  \/ RoomSteps(SeqProc) \/ MessagingSteps(SeqProc) \/ HandlerSteps(SeqProc)
  \/ TickAlone

\* create-room requests with any body, one at a time
ArriveBody(p) ==
  /\ Quiescent
  /\ ArriveCreate(p)
  /\ pre' = Snapshot

NextCreate ==
  \/ ArriveBody(SeqProc)
  \/ CreateSteps(SeqProc) \/ HandlerSteps(SeqProc)
  \/ TickAlone

\* set-interests requests and setUserInterests calls, one at a time
UserSteps(p) ==
  \/ InterestsFirst(p) \/ SetDel(p) \/ SetHSet(p) \/ SetGet(p) \/ SetProfile(p)
  \/ ProfileGet(p) \/ ProfileHSet(p)

ArriveProfile(p) ==
  /\ Quiescent
  /\ ArriveUser(p)
  /\ pre' = Snapshot

NextUser ==
  \/ ArriveProfile(SeqProc)
  \/ UserSteps(SeqProc) \/ Finish(SeqProc)
  \/ TickAlone

\* create-room requests whose interests may repeat a tag, one at a time
ArriveRanked(p) ==
  /\ Quiescent
  /\ ArriveTagged(p)
  /\ pre' = Snapshot

NextRank ==
  \/ ArriveRanked(SeqProc)
  \/ CreateHSet(SeqProc) \/ CreateActive(SeqProc) \/ CreateIndex(SeqProc)
  \/ HandlerSteps(SeqProc)
  \/ TickAlone

Spec == Init /\ [][Next]_vars

SpecRank == Init /\ [][NextRank]_vars

SpecUser == Init /\ [][NextUser]_vars

SpecApi == Init /\ [][NextApi]_vars

SpecCreate == Init /\ [][NextCreate]_vars

SpecConc == Init /\ [][NextConc]_vars

\* ---------------------------------------------------------------- ApiClient
\* what one fetch of a request may end with: a response that is ok, a response
\* that is not ok and carries an error code, or a TypeError of fetch itself
ErrorCodes == {"AUTH_REQUIRED", "RATE_LIMIT_EXCEEDED", "VALIDATION_ERROR",
               "NETWORK_ERROR", "INVALID_MESSAGE", "FORBIDDEN", "ACCESS_DENIED",
               "CHAT_ROOM_NOT_FOUND", "INTERNAL_ERROR"}
Responses == ErrorCodes \cup {"ok", "TypeError"}

\* ErrorHandler.fromApiError: the AppError made of what the operation threw
FromApiError(error) ==
  CASE error = "AUTH_REQUIRED"       -> [type |-> "AUTH_ERROR", retryable |-> FALSE]
    [] error = "RATE_LIMIT_EXCEEDED" -> [type |-> "RATE_LIMIT_ERROR", retryable |-> TRUE]
    [] error = "VALIDATION_ERROR"    -> [type |-> "VALIDATION_ERROR", retryable |-> FALSE]
    [] error = "NETWORK_ERROR"       -> [type |-> "NETWORK_ERROR", retryable |-> TRUE]
    [] error = "TypeError"           -> [type |-> "NETWORK_ERROR", retryable |-> TRUE]
    [] error = "AppError"            -> [type |-> "UNKNOWN_ERROR", retryable |-> TRUE]
    [] error = "Error"               -> [type |-> "UNKNOWN_ERROR", retryable |-> TRUE]
    [] OTHER                         -> [type |-> "SERVER_ERROR", retryable |-> TRUE]

\* ApiClient.request with retryable left at its default, as every method of
\* the client calls it: RetryHandler.withRetry starts its first attempt
ApiRequest ==
  /\ apiCall.pc = "idle"
  /\ apiCall' = [pc |-> "fetch", attempt |-> 1, responses |-> <<>>]
  /\ UNCHANGED <<joinOrder, discoveryPage, realtime, chatPage, userVars, activeChats, rooms, active, interestIdx, msgs, now, nextRoom, msgIds, started, req, pre>>

\* one run of the operation: the request is sent and answered; withRetry
\* returns the answer, or throws the error when it is not retryable or this
\* was the last attempt, or else waits
Attempted(call, r) ==
  [call EXCEPT !.responses = Append(@, r),
               !.pc = IF r = "ok" THEN "returned"
                      ELSE IF ~FromApiError(r).retryable
                              \/ call.attempt = MaxAttempts
                      THEN "thrown"
                      ELSE "wait"]

ApiFetch ==
  /\ apiCall.pc = "fetch"
  /\ \E r \in Responses : apiCall' = Attempted(apiCall, r)
  /\ UNCHANGED <<joinOrder, discoveryPage, realtime, chatPage, userVars, activeChats, rooms, active, interestIdx, msgs, now, nextRoom, msgIds, started, req, pre>>

\* the delay is over: the next attempt
ApiRetry ==
  /\ apiCall.pc = "wait"
  /\ apiCall' = [apiCall EXCEPT !.pc = "fetch", !.attempt = @ + 1]
  /\ UNCHANGED <<joinOrder, discoveryPage, realtime, chatPage, userVars, activeChats, rooms, active, interestIdx, msgs, now, nextRoom, msgIds, started, req, pre>>

\* the caller has the result or the error
ApiSettle ==
  /\ apiCall.pc \in {"returned", "thrown"}
  /\ apiCall' = NoCall
  /\ UNCHANGED <<joinOrder, discoveryPage, realtime, chatPage, userVars, activeChats, rooms, active, interestIdx, msgs, now, nextRoom, msgIds, started, req, pre>>

NextRetry == ApiRequest \/ ApiFetch \/ ApiRetry \/ ApiSettle

SpecRetry == Init /\ [][NextRetry]_vars

\* ----------------------------------------------------------- RealtimeClient
RECURSIVE Pow2(_)
Pow2(n) == IF n = 0 THEN 1 ELSE 2 * Pow2(n - 1)

\* mutant: no test against maxReconnectAttempts
AttemptReconnectUnbounded(rt) ==
  LET delay == reconnectDelay * Pow2(rt.reconnectAttempts)
  IN [rt EXCEPT !.reconnectAttempts = @ + 1,
                !.timers = Append(@, delay),
                !.series = Append(@, delay)]

\* attemptReconnect: nothing once maxReconnectAttempts is reached, else the
\* counter goes up and a timer is set with the delay doubled per attempt
AttemptReconnect(rt) ==
  IF rt.reconnectAttempts >= maxReconnectAttempts
  THEN rt
  ELSE LET delay == reconnectDelay * Pow2(rt.reconnectAttempts)
       IN [rt EXCEPT !.reconnectAttempts = @ + 1,
                     !.timers = Append(@, delay),
                     !.series = Append(@, delay)]

\* the ids of the messages the room of the page has stored
Stored == {m.id : m \in msgs[PageRoom]}

\* setConnectionStatus of the page, which does nothing once it is unmounted
SetConnectionStatus(rt, status) ==
  IF chatPage.mounted THEN [rt EXCEPT !.connectionStatus = status] ELSE rt

\* the onDisconnect callback connect installs; the caller's callback sets the
\* connection status
OnDisconnect(rt) ==
  LET gone == [SetConnectionStatus(rt, "disconnected") EXCEPT
                 !.connections = FALSE, !.storedAtLoss = Stored]
  IN IF rt.isOnline THEN AttemptReconnect(gone) ELSE gone

\* disconnect(channel): the connection the map holds is closed and removed;
\* whether the transport reports a close that the client asked for through
\* onDisconnect is the transport's choice
Disconnect(rt, reported) ==
  IF ~rt.connections THEN rt
  ELSE LET closed == [rt EXCEPT !.links = @ - 1, !.connections = FALSE]
       IN IF reported THEN OnDisconnect(closed) ELSE closed

\* connect up to its connectRealtime call: offline it throws, and the catch
\* turns the AppError into a retryable one and calls attemptReconnect; online
\* it closes the connection there is and starts a new one
Connect(rt, reported) ==
  IF ~rt.isOnline
  THEN IF FromApiError("AppError").retryable THEN AttemptReconnect(rt) ELSE rt
  ELSE [Disconnect(rt, reported) EXCEPT !.calls = @ + 1]

\* the application calls connectToChatRoom
RtConnect ==
  /\ realtime.connects < MaxConnects
  /\ \E reported \in BOOLEAN :
       realtime' = Connect([realtime EXCEPT !.connects = @ + 1], reported)
  /\ UNCHANGED <<joinOrder, discoveryPage, apiCall, chatPage, userVars, activeChats, rooms, active, interestIdx, msgs, now, nextRoom, msgIds, started, req, pre>>

\* a reconnect timer fires and calls connect
RtTimer ==
  /\ \E i \in 1..Len(realtime.timers), reported \in BOOLEAN :
       realtime' = Connect([realtime EXCEPT !.timers =
                              SubSeq(@, 1, i - 1) \o SubSeq(@, i + 1, Len(@))],
                           reported)
  /\ UNCHANGED <<joinOrder, discoveryPage, apiCall, chatPage, userVars, activeChats, rooms, active, interestIdx, msgs, now, nextRoom, msgIds, started, req, pre>>

\* connectRealtime resolves and the channel is connected: onConnect clears the
\* counter, connect stores the connection and registers the network listener
RtConnected ==
  /\ realtime.calls > 0
  /\ realtime' = [SetConnectionStatus(realtime, "connected") EXCEPT
                                  !.calls = @ - 1, !.links = @ + 1,
                                  !.connections = TRUE,
                                  !.reconnectAttempts = 0, !.series = <<>>,
                                  !.networkStatusListener = TRUE,
                                  !.missed =
                                    IF realtime.connectionStatus = "disconnected"
                                    THEN @ \cup (Stored \ realtime.storedAtLoss)
                                    ELSE @]
  /\ UNCHANGED <<joinOrder, discoveryPage, apiCall, chatPage, userVars, activeChats, rooms, active, interestIdx, msgs, now, nextRoom, msgIds, started, req, pre>>

\* connectRealtime rejects: the catch of connect calls attemptReconnect, the
\* error being retryable
RtConnectFails ==
  /\ realtime.calls > 0
  /\ realtime' = LET failed == [realtime EXCEPT !.calls = @ - 1]
                 IN IF FromApiError("Error").retryable
                    THEN AttemptReconnect(failed) ELSE failed
  /\ UNCHANGED <<joinOrder, discoveryPage, apiCall, chatPage, userVars, activeChats, rooms, active, interestIdx, msgs, now, nextRoom, msgIds, started, req, pre>>

\* the transport loses an open connection and reports it
RtTransportLoss ==
  /\ realtime.links > 0
  /\ realtime' = OnDisconnect([realtime EXCEPT !.links = @ - 1])
  /\ UNCHANGED <<joinOrder, discoveryPage, apiCall, chatPage, userVars, activeChats, rooms, active, interestIdx, msgs, now, nextRoom, msgIds, started, req, pre>>

\* the browser goes offline
RtOffline ==
  /\ realtime.isOnline
  /\ realtime' = [realtime EXCEPT !.isOnline = FALSE]
  /\ UNCHANGED <<joinOrder, discoveryPage, apiCall, chatPage, userVars, activeChats, rooms, active, interestIdx, msgs, now, nextRoom, msgIds, started, req, pre>>

\* the browser is back online: handleNetworkReconnect clears the counters
RtOnline ==
  /\ ~realtime.isOnline
  /\ realtime' = IF realtime.networkStatusListener
                 THEN [realtime EXCEPT !.isOnline = TRUE,
                                       !.reconnectAttempts = 0, !.series = <<>>]
                 ELSE [realtime EXCEPT !.isOnline = TRUE]
  /\ UNCHANGED <<joinOrder, discoveryPage, apiCall, chatPage, userVars, activeChats, rooms, active, interestIdx, msgs, now, nextRoom, msgIds, started, req, pre>>

RealtimeSteps ==
  \/ RtTimer \/ RtConnected \/ RtConnectFails \/ RtTransportLoss
  \/ RtOffline \/ RtOnline

NextReconnect == RtConnect \/ RealtimeSteps

\* ------------------------------------------------------------ ChatRoom page
\* the page mounts: it calls loadMessages and setupRealtimeConnection
PageMount ==
  /\ ~chatPage.mounted
  /\ realtime.connects < MaxConnects
  /\ chatPage' = [mounted |-> TRUE, messages |-> <<>>, load |-> "sent",
                  response |-> <<>>, chatRoom |-> NullRoom]
  /\ \E reported \in BOOLEAN :
       realtime' = Connect([realtime EXCEPT !.connects = @ + 1,
                                            !.connectionStatus = "connecting",
                                            !.missed = {}],
                           reported)
  /\ UNCHANGED <<joinOrder, discoveryPage, apiCall, userVars, activeChats, rooms, active, interestIdx, msgs, now, nextRoom, msgIds, started, req, pre>>

\* GET /api/chatrooms/:id/messages?limit=50 as the page's call gets it
\* answered: the newest messages, newest first, or no list when the room is
\* missing or the user is not a participant
LoadResponse ==
  LET chatRoom == GetChatRoom(rooms[PageRoom])
  IN IF IsNull(chatRoom) THEN [status |-> 404, data |-> <<>>]
     ELSE IF ~Includes(chatRoom.participants, PageUser)
     THEN [status |-> 403, data |-> <<>>]
     ELSE [status |-> 200,
           data |-> GetMessages(msgs[PageRoom], LimitNum(PageLimit), NoCursor)]

PageLoadAnswered ==
  /\ chatPage.mounted /\ chatPage.load = "sent"
  /\ chatPage' = [chatPage EXCEPT !.load = "answered", !.response = LoadResponse]
  /\ UNCHANGED <<joinOrder, discoveryPage, apiCall, realtime, userVars, activeChats, rooms, active, interestIdx, msgs, now, nextRoom, msgIds, started, req, pre>>

\* loadMessages has its result: setMessages(result.data.reverse())
PageLoadApplied ==
  /\ chatPage.mounted /\ chatPage.load = "answered"
  /\ chatPage' = [chatPage EXCEPT
                    !.load = "none", !.response = <<>>,
                    !.messages = IF chatPage.response.status = 200
                                 THEN Reverse([i \in 1..Len(chatPage.response.data)
                                                |-> chatPage.response.data[i].id])
                                 ELSE @]
  /\ UNCHANGED <<joinOrder, discoveryPage, apiCall, realtime, userVars, activeChats, rooms, active, interestIdx, msgs, now, nextRoom, msgIds, started, req, pre>>

\* mutant: the cleanup of the page also asks to leave the room
PageUnmountLeaves ==
  /\ chatPage.mounted
  /\ chatPage' = NoPage
  /\ \E reported \in BOOLEAN :
       realtime' = [Disconnect(realtime, reported) EXCEPT
                      !.connectionStatus = "none", !.missed = {}]
  /\ req' = [req EXCEPT ![SeqProc] =
               [pc |-> "leave_first", op |-> "leave", id |-> PageRoom,
                userId |-> PageUser] @@ Idle]
  /\ UNCHANGED <<joinOrder, discoveryPage, apiCall, userVars, activeChats, rooms, active, interestIdx, msgs, now, nextRoom, msgIds, started, pre>>

\* the page unmounts: the cleanup of its effect calls disconnectFromChatRoom
PageUnmount ==
  /\ chatPage.mounted
  /\ chatPage' = NoPage
  /\ \E reported \in BOOLEAN :
       realtime' = [Disconnect(realtime, reported) EXCEPT
                      !.connectionStatus = "none", !.missed = {}]
  /\ UNCHANGED <<joinOrder, discoveryPage, apiCall, userVars, activeChats, rooms, active, interestIdx, msgs, now, nextRoom, msgIds, started, req, pre>>

\* handleLeaveRoom: the user asks to leave, and the page sends the request
PageLeave ==
  /\ chatPage.mounted
  /\ Quiescent
  /\ BeginWith(SeqProc, "leave", [id |-> PageRoom, userId |-> PageUser])
  /\ pre' = Snapshot

PageSteps == PageMount \/ PageLoadAnswered \/ PageLoadApplied \/ PageUnmount

\* the room of the page is created by the page's user
CreatePageRoom(p) ==
  /\ nextRoom < PageRoom
  /\ Begin(p, "create", 0, PageUser, <<"A", "b">>, <<"x">>)

\* the page and its connection, with the requests that change who is in the
\* room of the page: its creation, the join of another user, the leave of the
\* page's user
ArriveMember(p) ==
  /\ Quiescent
  /\ CreatePageRoom(p) \/ Begin(p, "join", PageRoom, "u2", <<>>, <<>>)
  /\ pre' = Snapshot

MemberSteps(p) ==
  \/ CreateHSet(p) \/ CreateActive(p) \/ CreateIndex(p)
  \/ JoinGet(p) \/ JoinHSet(p)
  \/ LeaveGet(p) \/ LeaveHSet(p)
  \/ DeactGet(p) \/ DeactHSet(p) \/ DeactHDel(p) \/ DeactIndex(p)
  \/ HandlerSteps(p)

NextPage ==
  \/ PageSteps \/ PageLeave \/ RealtimeSteps
  \/ ArriveMember(SeqProc) \/ MemberSteps(SeqProc)

SpecPage == Init /\ [][NextPage]_vars

\* the page and its connection while messages are stored in its room; the
\* page stays open, the browser online, and every connectRealtime call succeeds
ArriveAtLog(p) ==
  /\ Quiescent
  /\ CreatePageRoom(p) \/ ArriveMessage(p)
  /\ pre' = Snapshot

LogSteps(p) ==
  \/ CreateHSet(p) \/ CreateActive(p) \/ CreateIndex(p)
  \/ MessageSteps(p) \/ HandlerSteps(p)

NextSync ==
  \/ PageMount \/ PageLoadAnswered \/ PageLoadApplied
  \/ RtTimer \/ RtConnected \/ RtTransportLoss
  \/ ArriveAtLog(SeqProc) \/ LogSteps(SeqProc)

\* timers fire, connectRealtime calls settle, requests are answered and the
\* server finishes what it has started; the transport may hold for ever, and
\* nobody has to open or leave the page or send anything
SpecSync ==
  /\ Init /\ [][NextSync]_vars
  /\ WF_vars(RtTimer) /\ WF_vars(RtConnected)
  /\ WF_vars(PageLoadAnswered) /\ WF_vars(PageLoadApplied)
  /\ WF_vars(LogSteps(SeqProc))

SpecReconnect == Init /\ [][NextReconnect]_vars

\* ------------------------------------------------------------ Discovery page
\* the page mounts: it calls loadChatRooms and setupRealtimeConnection
DiscoveryMount ==
  /\ ~discoveryPage.mounted
  /\ discoveryPage' = [NoDiscovery EXCEPT !.mounted = TRUE, !.pending = 1]
  /\ UNCHANGED <<joinOrder, apiCall, realtime, chatPage, userVars, activeChats, rooms, active, interestIdx, msgs, now, nextRoom, msgIds, started, req, pre>>

\* connectToDiscovery: the connection to the discovery channel is open
DiscoveryConnected ==
  /\ discoveryPage.mounted /\ ~discoveryPage.subscribed
  /\ discoveryPage' = [discoveryPage EXCEPT !.subscribed = TRUE]
  /\ UNCHANGED <<joinOrder, apiCall, realtime, chatPage, userVars, activeChats, rooms, active, interestIdx, msgs, now, nextRoom, msgIds, started, req, pre>>

\* GET /api/chatrooms without a query: the first page of the active rooms
GetChatRoomsResponse == Take(ActiveChatRoomList, RoomsLimit)

\* one of the page's loadChatRooms calls is answered
DiscoveryLoadAnswered ==
  /\ discoveryPage.pending > 0
  /\ discoveryPage' = [discoveryPage EXCEPT
                         !.pending = @ - 1,
                         !.answered = @ \cup {GetChatRoomsResponse}]
  /\ UNCHANGED <<joinOrder, apiCall, realtime, chatPage, userVars, activeChats, rooms, active, interestIdx, msgs, now, nextRoom, msgIds, started, req, pre>>

\* loadChatRooms has a result: setChatRooms(result.data)
DiscoveryLoadApplied ==
  /\ \E data \in discoveryPage.answered :
       discoveryPage' = [discoveryPage EXCEPT !.chatRooms = data,
                                              !.answered = @ \ {data}]
  /\ UNCHANGED <<joinOrder, apiCall, realtime, chatPage, userVars, activeChats, rooms, active, interestIdx, msgs, now, nextRoom, msgIds, started, req, pre>>

DiscoverySteps ==
  \/ DiscoveryMount \/ DiscoveryConnected
  \/ DiscoveryLoadAnswered \/ DiscoveryLoadApplied

\* the Discovery page with the requests that make rooms available and
\* unavailable, served one at a time
ArriveListed(p) ==
  /\ Quiescent
  /\ ArriveRoom(p, Creators)
  /\ pre' = Snapshot

\* the handlers' steps when every realtime.send resolves
ListedSteps(p) ==
  \/ RoomSteps(p)
  \/ Return(p) \/ ActiveChat(p) \/ PublishSent(p) \/ Finish(p)

NextDiscovery ==
  DiscoverySteps \/ ArriveListed(SeqProc) \/ ListedSteps(SeqProc)

\* the server finishes what it has started, the page's calls are answered and
\* its connection opens; nobody has to open the page or send a request
SpecDiscovery ==
  /\ Init /\ [][NextDiscovery]_vars
  /\ WF_vars(ListedSteps(SeqProc))
  /\ WF_vars(DiscoveryConnected)
  /\ WF_vars(DiscoveryLoadAnswered) /\ WF_vars(DiscoveryLoadApplied)

\* -------------------------------------------------------------- a full room
\* one user more than a room may hold, and the n-th of them
CrowdSize == MAX_CHAT_ROOM_PARTICIPANTS + 1
CrowdUser(n) == "c" \o ToString(n)
Crowd == {CrowdUser(n) : n \in 1..CrowdSize}

InitCrowd == InitOf(Users \cup Crowd)

\* the room the crowd gathers in
CrowdRoom == GetChatRoom(rooms[1])

\* the first of them creates a room, and the others join it one after the
\* other, the next one when the request before is answered
ArriveCrowd(p) ==
  /\ Quiescent
  /\ \/ /\ nextRoom = 0
        /\ BeginUpTo(p, "create",
                     [id |-> 0, userId |-> CrowdUser(1), title |-> <<"A", "b">>,
                      topic |-> Topic, interests |-> <<"x">>], CrowdSize)
     \/ /\ ~IsNull(CrowdRoom)
        /\ Len(CrowdRoom.participants) < CrowdSize
        /\ BeginUpTo(p, "join",
                     [id |-> 1, userId |-> CrowdUser(Len(CrowdRoom.participants) + 1),
                      title |-> <<>>, topic |-> <<>>, interests |-> <<>>],
                     CrowdSize)
  /\ pre' = Snapshot

CrowdSteps(p) ==
  \/ CreateHSet(p) \/ CreateActive(p) \/ CreateIndex(p)
  \/ JoinGet(p) \/ JoinHSet(p)
  \/ HandlerSteps(p)

NextCrowd == ArriveCrowd(SeqProc) \/ CrowdSteps(SeqProc)

SpecCrowd == InitCrowd /\ [][NextCrowd]_vars

\* ------------------------------------------------------- order of the joins
\* requests of the specification that follows the order of the joins
MaxJoinRequests == 6

InitOrder == InitWith(Users, TRUE)

\* u1 creates a room, and then joins and leaves of that room arrive on both
\* slots, each while the other slot may be between its awaits
ArriveOrdered(p) ==
  /\ \/ /\ nextRoom = 0 /\ Quiescent
        /\ BeginUpTo(p, "create",
                     [id |-> 0, userId |-> "u1", title |-> <<"A", "b">>,
                      topic |-> Topic, interests |-> <<>>], MaxJoinRequests)
     \/ /\ nextRoom = 1
        /\ \E o \in {"join", "leave"}, u \in Users :
             BeginUpTo(p, o, [id |-> 1, userId |-> u], MaxJoinRequests)
  /\ pre' = pre

OrderedSteps(p) ==
  \/ CreateHSet(p) \/ CreateActive(p)
  \/ JoinGet(p) \/ JoinHSet(p)
  \/ LeaveGet(p) \/ LeaveHSet(p)
  \/ DeactGet(p) \/ DeactHSet(p) \/ DeactHDel(p)
  \/ Return(p) \/ ActiveChat(p) \/ PublishSent(p) \/ Finish(p)

NextOrder == \E p \in Procs : ArriveOrdered(p) \/ OrderedSteps(p)

SpecOrder == InitOrder /\ [][NextOrder]_vars

\* ------------------------------------------------- createMessage interleaved
\* createMessage calls on both slots, their awaits interleaved
ArriveLogged(p) ==
  /\ ArriveMessage(p)
  /\ pre' = pre

LoggedSteps(p) == MessageSteps(p) \/ Return(p) \/ Finish(p)

NextLog == (\E p \in Procs : ArriveLogged(p) \/ LoggedSteps(p)) \/ Tick

SpecLog == Init /\ [][NextLog]_vars

\* ------------------------------------------------- the page's copy of a room
\* loadChatRoom of the page: GET /api/chatrooms/:id answers with the stored
\* record and setChatRoom keeps it
PageRoomLoaded ==
  /\ chatPage.mounted /\ IsNull(chatPage.chatRoom)
  /\ ~IsNull(GetChatRoom(rooms[PageRoom]))
  /\ chatPage' = [chatPage EXCEPT !.chatRoom = GetChatRoom(rooms[PageRoom])]
  /\ UNCHANGED <<joinOrder, discoveryPage, apiCall, realtime, userVars, activeChats, rooms, active, interestIdx, msgs, now, nextRoom, msgIds, started, req, pre>>

\* the page has its copy of the room and its channel is open
PageReady ==
  chatPage.mounted /\ ~IsNull(chatPage.chatRoom) /\ realtime.links > 0

\* the page is opened on a room that exists, while the server is idle
PageOpened ==
  /\ Quiescent
  /\ ~IsNull(GetChatRoom(rooms[PageRoom]))
  /\ PageMount

\* the room of the page is created, and users join and leave it one request
\* at a time, before the page is opened or once it is ready
ArriveEvent(p) ==
  /\ Quiescent
  /\ \/ CreatePageRoom(p)
     \/ /\ nextRoom >= PageRoom
        /\ ~chatPage.mounted \/ PageReady
        /\ \E o \in {"join", "leave"}, u \in Users :
             Begin(p, o, PageRoom, u, <<>>, <<>>)
  /\ pre' = Snapshot

NextEvents ==
  \/ PageOpened \/ PageRoomLoaded \/ PageLoadAnswered \/ PageLoadApplied
  \/ RtConnected
  \/ ArriveEvent(SeqProc) \/ MemberSteps(SeqProc)

SpecEvents == Init /\ [][NextEvents]_vars

\* ------------------------------------------- a client call and its requests
\* apiClient.createChatRoom(data) is called once: request keeps the body for
\* every attempt of withRetry
CallCreateChatRoom ==
  /\ started = 0
  /\ apiCall.pc = "idle"
  /\ \E data \in CreateBodies :
       apiCall' = [pc |-> "fetch", attempt |-> 1, responses |-> <<>>,
                   body |-> data]
  /\ UNCHANGED <<joinOrder, discoveryPage, realtime, chatPage, userVars, activeChats, rooms, active, interestIdx, msgs, now, nextRoom, msgIds, started, req, pre>>

\* the fetch of the attempt that is running reaches the server
ArriveCall(p) ==
  /\ apiCall.pc = "fetch"
  /\ started < apiCall.attempt
  /\ nextRoom < MaxRooms
  /\ BeginWith(p, "create", [userId |-> "u1", title |-> apiCall.body.title,
                             topic |-> apiCall.body.topic,
                             interests |-> apiCall.body.interests])
  /\ pre' = Snapshot

\* what operation() makes of the answer of POST /api/chatrooms: the body when
\* the response is ok, else the error code of the body, thrown
CreateAnswer(p) ==
  IF req[p].status = 201 THEN "ok"
  ELSE IF req[p].status = 400
  THEN CreateRequestCheck(req[p].title, req[p].topic, req[p].interests)
  ELSE "INTERNAL_ERROR"

\* the handler has answered and withRetry has the outcome of the attempt
ApiAnswered(p) ==
  /\ apiCall.pc = "fetch"
  /\ req[p].pc = "done"
  /\ apiCall' = Attempted(apiCall, CreateAnswer(p))
  /\ req' = [req EXCEPT ![p] = Idle]
  /\ pre' = NoPre
  /\ UNCHANGED <<joinOrder, discoveryPage, realtime, chatPage, userVars, activeChats, rooms, active, interestIdx, msgs, now, nextRoom, msgIds, started>>

CallSteps(p) ==
  \/ CreateReject(p) \/ CreateHSet(p) \/ CreateActive(p) \/ CreateIndex(p)
  \/ Return(p) \/ ActiveChat(p) \/ PublishSent(p) \/ PublishThrows(p)

NextCall ==
  \/ CallCreateChatRoom \/ ApiRetry \/ ApiSettle
  \/ ArriveCall(SeqProc) \/ CallSteps(SeqProc) \/ ApiAnswered(SeqProc)
  \/ TickAlone

SpecCall == Init /\ [][NextCall]_vars

\* ----------------------------------------------- history and message events
\* RealtimeService.sendMessageToRoom for the message createMessage has
\* returned, as the send handler chains the two calls: the event is out, and a
\* page that is mounted and connected runs handleRealtimeMessage, which
\* appends the message to its list; an entry of the list is written as the id
\* of the stored message it shows
SendMessageToRoom(p) ==
  /\ req[p].pc = "done" /\ req[p].op = "message"
  /\ chatPage' = IF chatPage.mounted /\ realtime.links > 0
                 THEN [chatPage EXCEPT !.messages = Append(@, req[p].message)]
                 ELSE chatPage
  /\ req' = [req EXCEPT ![p] = Idle]
  /\ pre' = NoPre
  /\ UNCHANGED <<joinOrder, discoveryPage, apiCall, realtime, userVars, activeChats, rooms, active, interestIdx, msgs, now, nextRoom, msgIds, started>>

\* the steps of these runs; the log stays within the history limit, so that
\* createMessage ends with its zCard
FeedSteps(p) ==
  \/ CreateHSet(p) \/ CreateActive(p) \/ CreateIndex(p)
  \/ Return(p) \/ ActiveChat(p) \/ PublishSent(p)
  \/ (req[p].op = "create" /\ Finish(p))
  \/ MsgZAdd(p) \/ MsgZCard(p) \/ SendMessageToRoom(p)

\* the room of the page is created, then messages are stored and announced
\* one at a time while the channel of the page is open
ArriveFeed(p) ==
  /\ Quiescent
  /\ CreatePageRoom(p) \/ (realtime.links > 0 /\ ArriveMessage(p))
  /\ pre' = Snapshot

\* the page is opened on its room; its history call and its connection go on
\* while the messages come in
NextFeed ==
  \/ PageOpened \/ PageLoadAnswered \/ PageLoadApplied \/ RtConnected
  \/ ArriveFeed(SeqProc) \/ FeedSteps(SeqProc)

SpecFeed == Init /\ [][NextFeed]_vars

\* ------------------------------------------------- profiles and memberships
\* room requests and set-interests requests of two users, one at a time
ArriveKept(p) ==
  /\ Quiescent
  /\ ArriveRoom(p, Creators) \/ ArriveUser(p)
  /\ pre' = Snapshot

NextKept ==
  \/ ArriveKept(SeqProc)
  \/ RoomSteps(SeqProc) \/ UserSteps(SeqProc) \/ HandlerSteps(SeqProc)
  \/ TickAlone

SpecKept == Init /\ [][NextKept]_vars

\* ------------------------------------------------------------------ claims
\* what a finished call was asked, and the store it started from
Done(p, op) == req[p].pc = "done" /\ req[p].op = op
PreRoom(p) == GetChatRoom(pre.rooms[req[p].id])
NowRoom(p) == GetChatRoom(rooms[req[p].id])

\* C1: in every state reached by createRoom, joinRoom and leaveRoom calls, every
\* stored room record has participantCount equal to the length of participants.
C1_CountIsLength ==
  \A r \in RoomIds :
    rooms[r] # EmptyHash =>
      Field(rooms[r], "participantCount", 0) = Len(Field(rooms[r], "participants", <<>>))

\* a leave has taken one of two participants out and the count followed
C1_Witness ==
  \E p \in Procs :
    /\ Done(p, "leave") /\ req[p].success
    /\ Len(PreRoom(p).participants) = 2
    /\ NowRoom(p).participantCount = 1

\* C2: two joins of different users on the same active room, their reads and
\* writes interleaved in any order: once both have returned success (and nothing
\* but the room's creation and the two joins was ever requested), both users are
\* participants and participantCount counts them.
C2_BothJoinersCounted ==
  \A p, q \in Procs :
    ( /\ p # q
      /\ Done(p, "join") /\ Done(q, "join")
      /\ req[p].id = req[q].id /\ req[p].userId # req[q].userId
      /\ req[p].status = 200 /\ req[q].status = 200
      /\ started = 3 )
    => /\ Includes(NowRoom(p).participants, req[p].userId)
       /\ Includes(NowRoom(p).participants, req[q].userId)
       /\ NowRoom(p).participantCount = Len(NowRoom(p).participants)

\* C3: joinRoom(r,u) on an active room that already lists u (the state a first
\* joinRoom(r,u) leaves) returns success and leaves the room record, and so the
\* participants list and participantCount, as they were.
C3_JoinIdempotent ==
  \A p \in Procs :
    ( /\ Done(p, "join")
      /\ ~IsNull(PreRoom(p)) /\ PreRoom(p).isActive
      /\ Includes(PreRoom(p).participants, req[p].userId) )
    => /\ req[p].success
       /\ rooms[req[p].id] = pre.rooms[req[p].id]

\* the second join of a user whom a first join added
C3_Witness ==
  \E p \in Procs :
    /\ Done(p, "join") /\ req[p].success
    /\ PreRoom(p).isActive
    /\ Len(PreRoom(p).participants) = 2
    /\ PreRoom(p).participants[2] = req[p].userId
    /\ NowRoom(p).participants = PreRoom(p).participants

\* C4: after leaveRoom(r,u) on a room whose only participant is u, getActiveRooms
\* does not contain r and getRoom(r) still returns the record, with isActive false.
C4_LastLeaveDeactivates ==
  \A p \in Procs :
    ( /\ Done(p, "leave")
      /\ ~IsNull(PreRoom(p))
      /\ PreRoom(p).participants = <<req[p].userId>> )
    => /\ req[p].id \notin GetActiveChatRooms
       /\ ~IsNull(NowRoom(p))
       /\ NowRoom(p).isActive = FALSE

\* the last participant of an active, listed room has left
C4_Witness ==
  \E p \in Procs :
    /\ Done(p, "leave") /\ req[p].success
    /\ PreRoom(p).isActive
    /\ PreRoom(p).participants = <<req[p].userId>>
    /\ req[p].id \in pre.active
    /\ ~NowRoom(p).isActive

\* C5: for every existing room record, isActive is false if and only if the
\* stored participants list is empty (checked when no call is under way).
C5_InactiveIffEmpty ==
  Quiescent =>
    \A r \in RoomIds :
      LET chatRoom == GetChatRoom(rooms[r])
      IN ~IsNull(chatRoom) =>
           ((chatRoom.isActive = FALSE) <=> (chatRoom.participants = <<>>))

\* C6: a room with isActive false is returned by none of getActiveRooms,
\* getRoomsByInterests and searchRooms, and once its deactivation has completed
\* its id is in neither the active-room index nor any interest index.
C6_InactiveNotDiscoverable ==
  \A r \in RoomIds :
    LET chatRoom == GetChatRoom(rooms[r])
    IN (~IsNull(chatRoom) /\ ~chatRoom.isActive) =>
         /\ r \notin GetActiveChatRooms
         /\ \A i \in InterestQueries : r \notin Keys(GetChatRoomsByInterests(i))
         /\ \A q \in Queries : r \notin SearchChatRooms(q)
         /\ Quiescent => /\ r \notin active
                         /\ \A t \in INTEREST_TAGS : r \notin interestIdx[t]

\* a tagged room that was listed and indexed has been deactivated
C6_Witness ==
  /\ Quiescent
  /\ \E r \in RoomIds :
       LET chatRoom == GetChatRoom(rooms[r])
       IN /\ ~IsNull(chatRoom) /\ ~chatRoom.isActive
          /\ Len(chatRoom.interests) = 2

\* C7: joinRoom on a room that does not exist or is inactive returns not found
\* (404) and changes nothing in the store.
C7_JoinNotFound ==
  \A p \in Procs :
    ( /\ Done(p, "join")
      /\ (IsNull(PreRoom(p)) \/ ~PreRoom(p).isActive) )
    => /\ ~req[p].success /\ req[p].status = 404
       /\ Snapshot = pre

\* a join was refused on a room that exists and is inactive
C7_Witness ==
  \E p \in Procs :
    /\ Done(p, "join")
    /\ ~IsNull(PreRoom(p)) /\ ~PreRoom(p).isActive
    /\ ~Includes(PreRoom(p).participants, req[p].userId)
    /\ req[p].status = 404

\* C8: deleteRoom by a requester who is not the room's creator returns forbidden
\* (403) and leaves the room record, the indexes and the message log unchanged.
C8_DeleteCreatorOnly ==
  \A p \in Procs :
    ( /\ Done(p, "delete")
      /\ ~IsNull(PreRoom(p))
      /\ PreRoom(p).creatorId # req[p].userId )
    => /\ ~req[p].success /\ req[p].status = 403
       /\ Snapshot = pre

\* a non-creator was refused the delete of a room that holds a message
C8_Witness ==
  \E p \in Procs :
    /\ Done(p, "delete")
    /\ ~IsNull(PreRoom(p))
    /\ PreRoom(p).creatorId # req[p].userId
    /\ msgs[req[p].id] # {}
    /\ req[p].status = 403

\* C9: after deleteRoom by the creator returns success, getRoom returns not
\* found, the message log is empty and the id is in neither the active-room
\* index nor any interest index.
C9_DeletePurges ==
  \A p \in Procs :
    (Done(p, "delete") /\ req[p].success)
    => /\ IsNull(NowRoom(p))
       /\ msgs[req[p].id] = {}
       /\ req[p].id \notin active
       /\ \A t \in INTEREST_TAGS : req[p].id \notin interestIdx[t]

\* the creator has deleted an active, tagged room that held a message
C9_Witness ==
  \E p \in Procs :
    /\ Done(p, "delete") /\ req[p].success
    /\ PreRoom(p).isActive
    /\ PreRoom(p).interests # <<>>
    /\ pre.msgs[req[p].id] # {}
    /\ req[p].id \in pre.active

\* the creator has deleted a room that was already deactivated
C9_WitnessInactive ==
  \E p \in Procs :
    /\ Done(p, "delete") /\ req[p].success
    /\ ~PreRoom(p).isActive

\* C10: a delete request for a room id that does not exist is answered 404, and
\* 403 is the answer only to a delete of an existing room by a non-creator.
C10_DeleteStatus ==
  \A p \in Procs :
    Done(p, "delete") =>
      /\ IsNull(PreRoom(p)) => req[p].status = 404
      /\ req[p].status = 403 =>
           (~IsNull(PreRoom(p)) /\ PreRoom(p).creatorId # req[p].userId)

\* ----------------------------------------------------------- message claims
PageSizes == 1..MaxMsgs
Position(s, m) == CHOOSE i \in 1..Len(s) : s[i] = m
Min(a, b) == IF a < b THEN a ELSE b

\* C11: retention is a hard cap that evicts the oldest: a createMessage call on a
\* room whose log held c messages (c at most the limit) leaves min(c + 1, limit)
\* messages, the new one among them, and whatever it evicted was created before
\* every message it kept; so after N calls in a row the log is exactly the
\* min(N, limit) most recently created messages.
C11_KeepsMostRecent ==
  \A p \in Procs :
    Done(p, "message") =>
      LET old == pre.msgs[req[p].id]
          kept == msgs[req[p].id]
      IN /\ Cardinality(kept) = Min(Cardinality(old) + 1, HistoryLimit)
         /\ \E m \in kept : m.seq = Cardinality(msgIds)
         /\ \A e \in old \ kept : \A m \in kept : e.seq < m.seq

\* C12: two messages of one room with the same timestamp are ordered by their
\* insertion: getMessages returns the later-inserted one first and
\* getMessagesAfter returns the earlier-inserted one first.
C12_TiesByInsertion ==
  \A r \in RoomIds : \A a, b \in msgs[r] :
    (a.timestamp = b.timestamp /\ a.seq < b.seq) =>
      LET newestFirst == GetMessages(msgs[r], Cardinality(msgs[r]), NoCursor)
          oldestFirst == GetMessagesAfter(msgs[r], a.timestamp - 1)
      IN /\ Position(newestFirst, b) < Position(newestFirst, a)
         /\ Position(oldestFirst, a) < Position(oldestFirst, b)

\* C13: backward pagination has no gaps or duplicates: for any log, ties of
\* timestamp included, getMessages(room, k) followed by getMessages(room, k,
\* before = oldest timestamp of the first page) gives two lists that together are
\* the newest messages of the log, newest first, none twice and none skipped,
\* the second page strictly older than the cursor.
C13_PagesContiguous ==
  \A r \in RoomIds : \A k \in PageSizes :
    LET log == msgs[r]
        all == GetMessages(log, Cardinality(log), NoCursor)
        first == GetMessages(log, k, NoCursor)
    IN first # <<>> =>
         LET cursor == first[Len(first)].timestamp
             second == GetMessages(log, k, cursor)
         IN /\ first \o second = Take(all, 2 * k)
            /\ \A i \in 1..Len(second) : second[i].timestamp < cursor

C15_PublishFailureSwallowed ==
  \A p \in Procs :
    ( /\ req[p].pc = "done"
      /\ req[p].op \in {"create", "join", "leave", "delete"}
      /\ req[p].success /\ ~req[p].published )
    => req[p].status \in {200, 201}

\* C20: when createRoom has completed, the new room's record has participants =
\* [creatorId], participantCount 1 and isActive true, its id is in the active
\* index and in the interest index of each of its tags, and getActiveRooms and
\* getRoomsByInterests for any of its tags return it; a room in the active index
\* that is missing from an interest index is still returned by getActiveRooms.
C20_CreatedRoomListed ==
  /\ \A p \in Procs :
       Done(p, "create") =>
         /\ NowRoom(p).participants = <<req[p].userId>>
         /\ NowRoom(p).participantCount = 1
         /\ NowRoom(p).isActive
         /\ NowRoom(p).creatorId = req[p].userId
         /\ NowRoom(p).interests = req[p].interests
         /\ req[p].id \in active
         /\ req[p].id \in GetActiveChatRooms
         /\ \A i \in 1..Len(req[p].interests) :
              /\ req[p].id \in interestIdx[req[p].interests[i]]
              /\ req[p].id \in Keys(GetChatRoomsByInterests(<<req[p].interests[i]>>))
  /\ \A r \in active :
       LET chatRoom == GetChatRoom(rooms[r])
       IN ( /\ ~IsNull(chatRoom) /\ chatRoom.isActive
            /\ \E i \in 1..Len(chatRoom.interests) :
                 r \notin interestIdx[chatRoom.interests[i]] )
          => r \in GetActiveChatRooms

\* a room with two tags has been created, after another room
C20_Witness ==
  \E p \in Procs :
    /\ Done(p, "create")
    /\ Len(req[p].interests) = 2
    /\ req[p].id = 2
    /\ IsNull(PreRoom(p))

\* a room is in the active index and not yet in the index of its second tag
C20_WitnessPartial ==
  \E r \in active :
    LET chatRoom == GetChatRoom(rooms[r])
    IN /\ ~IsNull(chatRoom) /\ chatRoom.isActive
       /\ Len(chatRoom.interests) = 2
       /\ r \in interestIdx[chatRoom.interests[1]]
       /\ r \notin interestIdx[chatRoom.interests[2]]
       /\ r \in GetActiveChatRooms

\* u's membership of room r as the requests made it: the handlers put r in u's
\* active chats when u creates or joins r and take it out when u leaves
Member(u, r) == r \in activeChats[u]

\* C16: a get-messages request succeeds only for a current participant of the
\* room: for an existing room, a caller who never joined it, or who left it by a
\* successful leave (the last participant's deactivating leave included), gets 403.
C16_ReadOnlyByParticipants ==
  \A p \in Procs :
    (Done(p, "read") /\ ~IsNull(PreRoom(p))) =>
      /\ req[p].status = 200 => Member(req[p].userId, req[p].id)
      /\ ~Member(req[p].userId, req[p].id) => req[p].status = 403

\* C17 as stated: a send-message request by a user who is not in the room's
\* participants, or to a room with isActive false, is rejected with 403, appends
\* nothing to the log, leaves lastActivity unchanged and publishes no event.
C17_SendRejected403 ==
  \A p \in Procs :
    ( /\ Done(p, "send")
      /\ ~IsNull(PreRoom(p))
      /\ \/ ~Includes(PreRoom(p).participants, req[p].userId)
         \/ ~PreRoom(p).isActive )
    => /\ req[p].status = 403
       /\ Snapshot = pre
       /\ ~req[p].published

\* C17, amended: the same for a request whose content passes the content check
\* (not blank, at most 500 characters); the content is checked first, and a
\* request that fails it is answered 400, also without any effect.
C17_ValidSendRejected403 ==
  \A p \in Procs :
    ( /\ Done(p, "send")
      /\ ~IsNull(PreRoom(p))
      /\ \/ ~Includes(PreRoom(p).participants, req[p].userId)
         \/ ~PreRoom(p).isActive )
    => /\ req[p].status = (IF ValidateMessageContent(req[p].content) THEN 403 ELSE 400)
       /\ Snapshot = pre
       /\ ~req[p].published

\* a participant's valid message to a deactivated room was refused
C17_Witness ==
  \E p \in Procs :
    /\ Done(p, "send")
    /\ ValidateMessageContent(req[p].content)
    /\ ~IsNull(PreRoom(p)) /\ ~PreRoom(p).isActive
    /\ Includes(PreRoom(p).participants, req[p].userId)
    /\ req[p].status = 403

\* a non-participant's valid message to an active room was refused
C17_WitnessNonParticipant ==
  \E p \in Procs :
    /\ Done(p, "send")
    /\ ValidateMessageContent(req[p].content)
    /\ ~IsNull(PreRoom(p)) /\ PreRoom(p).isActive
    /\ ~Includes(PreRoom(p).participants, req[p].userId)
    /\ req[p].status = 403

\* C18: a send-message request with valid content by a participant of an active
\* room succeeds: the log grows by exactly one message, of that user, the room's
\* lastActivity is updated, and the answer is 201.
C18_ValidSendSucceeds ==
  \A p \in Procs :
    ( /\ Done(p, "send")
      /\ ValidateMessageContent(req[p].content)
      /\ ~IsNull(PreRoom(p)) /\ PreRoom(p).isActive
      /\ Includes(PreRoom(p).participants, req[p].userId) )
    => /\ req[p].status = 201
       /\ Cardinality(msgs[req[p].id]) = Cardinality(pre.msgs[req[p].id]) + 1
       /\ \A m \in msgs[req[p].id] \ pre.msgs[req[p].id] : m.userId = req[p].userId
       /\ NowRoom(p).lastActivity = now

\* C19: a create-room request is accepted (201, room stored) only when the title
\* has 3 to 100 characters, the topic 10 to 200 and the interests are 1 to 5 ids
\* of the tag catalog; any other request gets 400 and creates no room record and
\* no index entry.
C19_CreateValidated ==
  \A p \in Procs :
    Done(p, "create") =>
      LET withinBounds ==
            /\ Len(req[p].title) >= 3 /\ Len(req[p].title) <= 100
            /\ Len(req[p].topic) >= 10 /\ Len(req[p].topic) <= 200
            /\ req[p].interests # NotAnArray
            /\ Len(req[p].interests) >= 1 /\ Len(req[p].interests) <= 5
            /\ \A i \in 1..Len(req[p].interests) : req[p].interests[i] \in INTEREST_TAGS
      IN /\ req[p].status = 201 => withinBounds
         /\ ~withinBounds => (req[p].status = 400 /\ Snapshot = pre)

\* C21: setInterests(userId, interests) with more than 5 interests is rejected
\* with a validation error and leaves the stored interest set unchanged; with 5
\* or fewer it replaces the stored set wholesale, so getUserInterests afterwards
\* returns exactly the given interests and none of the previous ones.  Checked
\* for the bare repository call and for the set-interests request.
C21_SetInterestsReplaces ==
  \A p \in Procs :
    /\ Done(p, "setInterests") =>
         IF Len(req[p].interests) > MAX_INTERESTS
         THEN req[p].threw /\ Snapshot = pre
         ELSE /\ ~req[p].threw
              /\ GetUserInterests(req[p].userId) = Keys(req[p].interests)
    /\ ( Done(p, "interests")
         /\ InterestsRequestCheck(req[p].interests)
              \in {"ok", "TOO_MANY_INTERESTS"} ) =>
         IF Len(req[p].interests) > MAX_INTERESTS
         THEN req[p].status = 400 /\ Snapshot = pre
         ELSE /\ req[p].status = 200
              /\ GetUserInterests(req[p].userId) = Keys(req[p].interests)

\* a call with one interest has replaced a stored set that held another one
C21_Witness ==
  \E p \in Procs :
    /\ Done(p, "setInterests") /\ ~req[p].threw
    /\ req[p].interests = <<"x">>
    /\ pre.userInterests[req[p].userId] = {"x", "y"}
    /\ GetUserInterests(req[p].userId) = {"x"}

\* a call with six interests was rejected while a set was stored
C21_WitnessRejected ==
  \E p \in Procs :
    /\ Done(p, "setInterests") /\ req[p].threw
    /\ Len(req[p].interests) = MAX_INTERESTS + 1
    /\ pre.userInterests[req[p].userId] = {"x"}
    /\ GetUserInterests(req[p].userId) = {"x"}

\* C22: the request layer updates the user's active-chat set alongside every
\* successful membership change: after a successful create-room or join request
\* for room r by user u, r is in u's active-chat set; after a successful leave
\* request, r is not in it; a failed (not-found) join or leave leaves the set
\* unchanged.
C22_ActiveChatsFollow ==
  \A p \in Procs :
    /\ (Done(p, "create") /\ req[p].status = 201) => Member(req[p].userId, req[p].id)
    /\ (Done(p, "join") /\ req[p].status = 200) => Member(req[p].userId, req[p].id)
    /\ (Done(p, "leave") /\ req[p].status = 200) => ~Member(req[p].userId, req[p].id)
    /\ ( (Done(p, "join") \/ Done(p, "leave")) /\ req[p].status = 404 ) =>
         activeChats = pre.activeChats

\* a successful leave has taken the room out of the set a join had put it in
C22_Witness ==
  \E p \in Procs :
    /\ Done(p, "leave") /\ req[p].status = 200
    /\ req[p].id \in pre.activeChats[req[p].userId]
    /\ PreRoom(p).creatorId # req[p].userId
    /\ ~Member(req[p].userId, req[p].id)

\* a join of an inactive room was answered 404 while the caller's set held a room
C22_WitnessFailed ==
  \E p \in Procs :
    /\ Done(p, "join") /\ req[p].status = 404
    /\ pre.activeChats[req[p].userId] # {}
    /\ activeChats = pre.activeChats

\* the tags of a query that a room carries
MatchedTags(r, query) == Keys(GetChatRoom(rooms[r]).interests) \cap Keys(query)

\* C23: getRoomsByInterests(tags) returns exactly the active rooms tagged with
\* at least one of the given tags, each once, ordered by descending number of
\* matched tags and, among rooms with equal match count, by descending
\* lastActivity; so a room matching two of the tags comes before a room
\* matching one even when their lastActivity is equal.
C23_RankedByRelevance ==
  Quiescent =>
    \A query \in InterestQueries \ {<<>>} :
      LET result == GetChatRoomsByInterests(query)
          count(r) == Cardinality(MatchedTags(r, query))
          activity(r) == GetChatRoom(rooms[r]).lastActivity
      IN /\ Keys(result) = {r \in RoomIds : /\ ~IsNull(GetChatRoom(rooms[r]))
                                            /\ GetChatRoom(rooms[r]).isActive
                                            /\ MatchedTags(r, query) # {}}
         /\ Len(result) = Cardinality(Keys(result))
         /\ \A i, j \in 1..Len(result) :
              i < j => \/ count(result[i]) > count(result[j])
                       \/ /\ count(result[i]) = count(result[j])
                          /\ activity(result[i]) >= activity(result[j])

\* C27: the client retries a request only for internal/store errors: a response
\* carrying a validation, forbidden or not-found error (INVALID_MESSAGE,
\* FORBIDDEN, ACCESS_DENIED, CHAT_ROOM_NOT_FOUND) is surfaced to the caller
\* after a single attempt and the request is not re-sent.
C27_ClientErrorsNotRetried ==
  \A i \in 1..Len(apiCall.responses) :
    apiCall.responses[i] \in {"INVALID_MESSAGE", "FORBIDDEN", "ACCESS_DENIED",
                              "CHAT_ROOM_NOT_FOUND"}
    => /\ i = 1
       /\ Len(apiCall.responses) = 1
       /\ apiCall.pc = "thrown"

\* C24: client reconnection to a channel after transport loss is bounded: the
\* delay doubles with each consecutive attempt starting from the base delay,
\* the number of consecutive reconnect attempts for a channel never exceeds the
\* maximum (5), the counter resets when a connection succeeds, and after the
\* maximum is reached no further attempt is scheduled.
C24_ReconnectBounded ==
  [][ /\ realtime'.reconnectAttempts <= maxReconnectAttempts
      /\ Len(realtime'.series) = realtime'.reconnectAttempts
      /\ \A k \in 1..Len(realtime'.series) :
           realtime'.series[k] = reconnectDelay * Pow2(k - 1)
      /\ realtime'.links > realtime.links => realtime'.reconnectAttempts = 0
      /\ realtime.reconnectAttempts = maxReconnectAttempts =>
           Len(realtime'.timers) <= Len(realtime.timers) ]_vars

\* five attempts in a row have failed, the last one 16 seconds after the fourth,
\* and nothing is scheduled any more
C24_Witness ==
  /\ realtime.reconnectAttempts = maxReconnectAttempts
  /\ realtime.series = <<1000, 2000, 4000, 8000, 16000>>
  /\ realtime.timers = <<>> /\ realtime.calls = 0 /\ realtime.links = 0
  /\ realtime.networkStatusListener

\* C26: a client's disconnection from a realtime channel (transport loss,
\* explicit disconnect, or leaving the chat page) never changes room
\* membership: participants, participantCount and isActive are the same before
\* and after, and no leave request is issued.
C26_DisconnectKeepsMembership ==
  [][ ( \/ realtime'.links < realtime.links
        \/ realtime.connections /\ ~realtime'.connections
        \/ chatPage.mounted /\ ~chatPage'.mounted )
      => /\ rooms' = rooms
         /\ active' = active
         /\ req' = req /\ started' = started ]_vars

\* the page has lost its connection while its user is the room's participant,
\* and the user still is
C26_Witness ==
  /\ chatPage.mounted
  /\ realtime.connectionStatus = "disconnected" /\ ~realtime.connections
  /\ Quiescent
  /\ ~IsNull(GetChatRoom(rooms[PageRoom]))
  /\ GetChatRoom(rooms[PageRoom]).isActive
  /\ GetChatRoom(rooms[PageRoom]).participants = <<PageUser, "u2">>
  /\ GetChatRoom(rooms[PageRoom]).participantCount = 2

\* the page was left while connected, and its user is still a participant
C26_WitnessUnmount ==
  /\ ~chatPage.mounted /\ realtime.connects > 0 /\ realtime.networkStatusListener
  /\ realtime.links = 0
  /\ Quiescent /\ started = 1
  /\ ~IsNull(GetChatRoom(rooms[PageRoom]))
  /\ GetChatRoom(rooms[PageRoom]).isActive
  /\ GetChatRoom(rooms[PageRoom]).participants = <<PageUser>>

\* C25: after a client reconnects to a room channel following a disconnection,
\* it resynchronizes with getMessagesAfter using the last timestamp it saw, so
\* every message persisted in the room while the client was disconnected
\* eventually appears in the client's message list (as long as the page stays
\* open and connected and the message stays in the log).
C25_MissedMessagesAppear ==
  \A m \in MsgKeys :
    ( /\ chatPage.mounted
      /\ realtime.connectionStatus = "connected"
      /\ m \in realtime.missed
      /\ m \in Stored )
    ~> ( \/ Includes(chatPage.messages, m)
         \/ ~chatPage.mounted
         \/ realtime.connectionStatus # "connected"
         \/ m \notin Stored )

\* C28: between requests, for every interest tag t the chatRoomCount that the
\* list-interest-tags request returns equals the number of rooms whose record
\* reads isActive = true and whose interests contain t, whatever create, join,
\* leave and delete requests were served before.
C28_TagCountIsActiveRooms ==
  Quiescent =>
    \A t \in INTEREST_TAGS :
      GetInterestTags[t] =
        Cardinality({r \in RoomIds :
                       LET chatRoom == GetChatRoom(rooms[r])
                       IN /\ ~IsNull(chatRoom) /\ chatRoom.isActive
                          /\ Includes(chatRoom.interests, t)})

\* two rooms were tagged "x"; one was deactivated by its last leave and the
\* request counts the other one only
C28_Witness ==
  /\ Quiescent
  /\ GetInterestTags["x"] = 1
  /\ \E r \in RoomIds :
       LET chatRoom == GetChatRoom(rooms[r])
       IN /\ ~IsNull(chatRoom) /\ ~chatRoom.isActive
          /\ Includes(chatRoom.interests, "x")

\* the first room was deleted and the second, tagged "x" and "y", is the one
\* room both counts report
C28_WitnessDeleted ==
  /\ Quiescent
  /\ nextRoom = 2
  /\ IsNull(GetChatRoom(rooms[1]))
  /\ LET chatRoom == GetChatRoom(rooms[2])
     IN /\ ~IsNull(chatRoom) /\ chatRoom.isActive
        /\ Len(chatRoom.interests) = 2
  /\ \A t \in INTEREST_TAGS : GetInterestTags[t] = 1

\* the room is there and reads isActive = true
Available(r) ==
  LET chatRoom == GetChatRoom(rooms[r])
  IN ~IsNull(chatRoom) /\ chatRoom.isActive

Listed(r) == Includes(discoveryPage.chatRooms, r)

\* C29: a Discovery page that is connected to the discovery channel and lists
\* an available room when a delete or a leave of that room arrives, with no
\* loadChatRooms call of its own under way, eventually stops listing the room,
\* unless the request leaves the room available (a delete by someone else, a
\* leave that keeps participants).
C29_UnavailableRoomUnlisted ==
  \A r \in RoomIds :
    ( /\ discoveryPage.subscribed /\ Listed(r)
      /\ discoveryPage.pending = 0 /\ discoveryPage.answered = {}
      /\ Available(r)
      /\ \E p \in Procs : /\ req[p].pc \in {"leave_first", "delete_first"}
                          /\ req[p].id = r )
    ~> (~Listed(r) \/ (Quiescent /\ Available(r)))

\* C30: every room has at most MAX_CHAT_ROOM_PARTICIPANTS participants, and a
\* join by a user who is not in a room that already has that many does not add
\* the user.
C30_ParticipantsCapped ==
  /\ \A r \in RoomIds :
       LET chatRoom == GetChatRoom(rooms[r])
       IN ~IsNull(chatRoom) =>
            Len(chatRoom.participants) <= MAX_CHAT_ROOM_PARTICIPANTS
  /\ \A p \in Procs :
       ( /\ Done(p, "join")
         /\ ~IsNull(PreRoom(p))
         /\ Len(PreRoom(p).participants) >= MAX_CHAT_ROOM_PARTICIPANTS
         /\ ~Includes(PreRoom(p).participants, req[p].userId) )
       => ~Includes(NowRoom(p).participants, req[p].userId)

\* C31: a leave request, the deactivation by the last leave included, leaves
\* the message log of every room as it was, and getMessages on the room that
\* was left returns afterwards what it returned before.
C31_LeaveKeepsLog ==
  \A p \in Procs :
    Done(p, "leave") =>
      /\ msgs = pre.msgs
      /\ GetMessages(msgs[req[p].id], LimitNum(0), NoCursor)
           = GetMessages(pre.msgs[req[p].id], LimitNum(0), NoCursor)

\* the last participant has left a room that holds messages: the room is
\* inactive and out of the active list, and getMessages returns the messages
C31_Witness ==
  \E p \in Procs :
    /\ Done(p, "leave") /\ req[p].status = 200
    /\ PreRoom(p).isActive /\ ~NowRoom(p).isActive
    /\ req[p].id \notin GetActiveChatRooms
    /\ GetMessages(msgs[req[p].id], LimitNum(0), NoCursor) # <<>>

\* where x stands in a list that holds it
PlaceOf(list, x) == CHOOSE i \in 1..Len(list) : list[i] = x

\* C32: a room's participants list holds no user twice and lists its users in
\* the order of their latest insertion by a create or a join, the record a
\* creation writes listing the creator alone, also when join and leave
\* requests interleave.
C32_ParticipantsInJoinOrder ==
  joinOrder.tracked =>
    \A r \in RoomIds :
      LET chatRoom == GetChatRoom(rooms[r])
          list == IF IsNull(chatRoom) THEN <<>> ELSE chatRoom.participants
          order == joinOrder.order[r]
      IN /\ \A i, j \in 1..Len(list) : i < j => list[i] # list[j]
         /\ \A i, j \in 1..Len(list) :
              i < j => PlaceOf(order, list[i]) < PlaceOf(order, list[j])
         /\ \A p \in Procs :
              (req[p].pc = "create_active" /\ req[p].id = r)
                => req[p].chatRoom.participants = <<req[p].userId>>

\* C33: when a delete of room r and a join of room r have both been answered
\* with success, the store holds no field of r's record and no message of r,
\* however the two requests were interleaved.
C33_DeleteIsFinal ==
  \A p, q \in Procs :
    ( /\ Done(p, "delete") /\ req[p].status = 200
      /\ Done(q, "join") /\ req[q].status = 200
      /\ req[q].id = req[p].id )
    => /\ rooms[req[p].id] = EmptyHash
       /\ msgs[req[p].id] = {}

\* C34: when createMessage calls on one room interleave and all have returned,
\* the log holds exactly min(messages inserted, history limit) messages: the
\* limit is not exceeded and no message within the limit has been evicted
NoCreateMessageRunning ==
  \A p \in Procs : req[p].pc \in {"idle", "done"}

C34_LogHoldsMinOfTotalAndLimit ==
  NoCreateMessageRunning =>
    \A r \in MsgRooms :
      Cardinality(msgs[r])
        = Min(Cardinality(msgIds), HistoryLimit)

\* C35: a join interleaved with the leave of the last participant never ends
\* with the room inactive and holding the participant the join has added and
\* answered 200 for
C35_NoJoinIntoInactiveRoom ==
  \A p \in Procs :
    ( /\ Done(p, "join") /\ req[p].status = 200
      /\ ~Includes(req[p].chatRoom.participants, req[p].userId) )
    => ~( /\ ~IsNull(NowRoom(p))
          /\ ~NowRoom(p).isActive
          /\ Includes(NowRoom(p).participants, req[p].userId) )

\* C35, first half: no operation sets isActive of a stored room back to true
C35_DeactivationIrreversible ==
  [][\A r \in RoomIds :
       LET before == GetChatRoom(rooms[r])
           after  == GetChatRoom(rooms'[r])
       IN (~IsNull(before) /\ ~before.isActive)
            => (IsNull(after) \/ ~after.isActive)]_vars

\* C36: a user_joined event is published only when the join has added the
\* user to participants and a user_left event only when the leave has removed
\* the user, so that a page which has applied every event since it loaded the
\* room holds the participants and the participantCount the server has
C36_EventOnlyOnChange ==
  \A p \in Procs :
    (req[p].pc = "done" /\ req[p].published) =>
      /\ req[p].op = "join" =>
           /\ ~Includes(PreRoom(p).participants, req[p].userId)
           /\ Includes(NowRoom(p).participants, req[p].userId)
      /\ req[p].op = "leave" =>
           /\ Includes(PreRoom(p).participants, req[p].userId)
           /\ ~Includes(NowRoom(p).participants, req[p].userId)

C36_PageCopyMatches ==
  (Quiescent /\ PageReady) =>
    LET chatRoom == GetChatRoom(rooms[PageRoom])
    IN /\ chatPage.chatRoom.participants = chatRoom.participants
       /\ chatPage.chatRoom.participantCount = chatRoom.participantCount

C36_EventsMatchMembership == C36_EventOnlyOnChange /\ C36_PageCopyMatches

\* C37: one call of createChatRoom by the client persists at most one room: no
\* attempt is sent again once its room is stored, whatever the server answered
C37_OneCallOneRoom ==
  Cardinality({r \in RoomIds : rooms[r] # EmptyHash}) <= 1

\* C38: once the page has disconnected from its channel (its cleanup calls
\* disconnectFromChatRoom) and until the application calls connect anew, no
\* connection to the channel is established: neither a reconnect timer set
\* before the disconnect nor a connectRealtime call still running opens one
C38_NoReopenAfterDisconnect ==
  [][(~chatPage.mounted /\ ~chatPage'.mounted)
       => realtime'.links <= realtime.links]_vars

\* a reconnect timer is pending after the disconnect
C38_TimerOutlivesDisconnect ==
  ~chatPage.mounted /\ realtime.connects > 0 /\ realtime.timers # <<>>

\* C39: once the page has its history response applied and its channel open,
\* and no message is on its way, the page's list shows every message stored in
\* the room exactly once, whatever the order of the response and the events
C39_EachMessageOnce ==
  ( /\ chatPage.mounted /\ chatPage.load = "none"
    /\ realtime.links > 0
    /\ Quiescent )
  => \A m \in msgs[PageRoom] :
       Cardinality({i \in 1..Len(chatPage.messages) :
                      chatPage.messages[i] = m.id}) = 1

\* C40: whenever user u has a profile record and no request of u is running,
\* the activeChats of the profile are the room ids of u's active-chat hash,
\* also when u joined rooms before the profile was first written
C40_ProfileMirrorsActiveChats ==
  \A u \in Users :
    ( /\ ~NoProfile(GetUserProfile(profiles[u]))
      /\ \A p \in Procs : req[p].pc = "idle" \/ req[p].userId # u )
    => GetUserProfile(profiles[u]).activeChats = activeChats[u]

====
